---- MODULE Spec2Model ----
(***************************************************************************)
(* chain-forge: the shared node registry (crates/common/src/registry.rs)   *)
(* and the instance lifecycle of the two chain providers                   *)
(* (chains/solana/crates/core, chains/bitcoin/crates/core).                *)
(*                                                                         *)
(* The specifications share the variables:                                 *)
(*   SpecReg   one process calling the public registry operations, each a  *)
(*             whole load -> mutate -> save cycle;                         *)
(*   SpecCorr  SpecReg plus damage to the registry files from outside;     *)
(*   SpecConc  several processes running the registry operations one       *)
(*             system call at a time, with crashes;                        *)
(*   SpecOrch  several processes each owning one provider (start / stop).  *)
(*   SpecStart one provider, its backend failing funding calls at will;    *)
(*   SpecFund  one funding pass of either RPC client;                      *)
(*   SpecUnit  one call of one function: the paths of an instance id, the  *)
(*             funding block of start, set_balance;                        *)
(*   SpecLoop  the polling loops (set_balances, the readiness wait), one   *)
(*             iteration at a time; SpecLoopLive adds weak fairness;       *)
(*   SpecPub   SpecStart plus damage to the registry files from outside;   *)
(*   SpecSave  one process running the registry operations one system call *)
(*             at a time, the files damaged between its calls;             *)
(*   SpecCli   SpecStart plus the CLI's accounts and stop commands;        *)
(*   SpecApi   SpecStart plus the API server's health_check and stop_node; *)
(*             SpecApiLive adds weak fairness of the provider's steps.     *)
(***************************************************************************)
EXTENDS Integers, Sequences, FiniteSets, TLC

\* ------------------------------------------------------------------ bounds
\* instance ids are 1..MaxInst within each chain
MaxInst == 1
\* number of independent OS processes
NumProcs == 2
\* registry operations one process runs in SpecConc
MaxOps == 2
\* start / stop calls one provider receives in SpecOrch
MaxCalls == 3
\* accounts of one instance are 1..n with n in 1..MaxAccounts
MaxAccounts == 1
\* a funding pass in SpecFund runs over 1..n accounts with n in 1..MaxPass
MaxPass == 2
\* target balances are 1..MaxBalance
MaxBalance == 1
\* instance ids given on the command line have up to MaxIdLen characters
MaxIdLen == 2
\* the readiness wait is called with max_attempts in 0..MaxAttempts
MaxAttempts == 3

\* ------------------------------------------------------------------ data
\* enum ChainType, in its serialized (lowercase) form
ChainType == {"solana", "bitcoin"}

\* enum NodeStatus, in its serialized (lowercase) form
NodeStatus == {"running", "stopped", "unknown"}

Instances == 1..MaxInst
Procs == 1..NumProcs

\* NodeRegistry::node_id: format!("{}:{}", chain, instance_id). The chain
\* prefix contains no ':', so the string determines the pair and the pair
\* stands for the string.
node_id(chain, instance_id) == <<chain, instance_id>>

NodeIds == {node_id(c, i) : c \in ChainType, i \in Instances}

\* default ports of the two config types (SolanaConfig / BitcoinConfig)
DefaultPort(chain) == IF chain = "solana" THEN 8899 ELSE 18443

Ports == {8899, 18443}

\* struct NodeInfo (name, rpc_url, accounts_count and started_at are carried
\* exactly like rpc_port and are left out)
NodeInfo == [node_id : NodeIds, chain : ChainType, instance_id : Instances,
             rpc_port : Ports, status : NodeStatus]

\* a NodeInfo::new that derives node_id from the instance id alone
NodeInfoNew_nochain(chain, instance_id, rpc_port) ==
    [node_id |-> node_id("solana", instance_id), chain |-> chain,
     instance_id |-> instance_id, rpc_port |-> rpc_port, status |-> "running"]

\* NodeInfo::new: node_id derived from chain and instance, status Running
NodeInfoNew(chain, instance_id, rpc_port) ==
    [node_id |-> node_id(chain, instance_id), chain |-> chain,
     instance_id |-> instance_id, rpc_port |-> rpc_port, status |-> "running"]

\* RegistryData::default(): no nodes
EmptyStore == [n \in {} |-> 0]

\* HashMap::insert
Insert(nodes, k, v) == [x \in (DOMAIN nodes) \cup {k} |-> IF x = k THEN v ELSE nodes[x]]

\* HashMap::remove
Remove(nodes, k) == [x \in (DOMAIN nodes) \ {k} |-> nodes[x]]

\* ------------------------------------------------------------------ files
\* The three paths of a registry: registry.json, registry.json.bak and the
\* temporary registry.json.tmp every writer uses.
PathNames == {"primary", "backup", "tmp"}

\* one inode per path plus one that each process may still hold open
NumInodes == 3 + NumProcs
Inodes == 1..NumInodes

\* What a file holds: kind "json" is a complete serialized RegistryData,
\* "empty" a zero-length file, "text" valid UTF-8 that is no RegistryData
\* (a torn or overwritten document), "bytes" content that is not valid UTF-8,
\* "none" an unused inode.
NoFile == [kind |-> "none", nodes |-> EmptyStore]
EmptyFile == [kind |-> "empty", nodes |-> EmptyStore]
TornFile(nodes) == [kind |-> "text", nodes |-> nodes]
BytesFile == [kind |-> "bytes", nodes |-> EmptyStore]

\* serde_json::to_string_pretty(data)
to_string_pretty(data) == [kind |-> "json", nodes |-> data]

\* Read::read_to_string / fs::read_to_string: fails on invalid UTF-8
read_to_string(c) == [ok |-> c.kind # "bytes", contents |-> c]

\* serde_json::from_str::<RegistryData>
from_str(c) == [ok |-> c.kind = "json", data |-> IF c.kind = "json" THEN c.nodes ELSE EmptyStore]

\* results of the registry operations (Result<T>)
Ok(v) == [ok |-> TRUE, val |-> v, err |-> "none"]
Err(e) == [ok |-> FALSE, val |-> EmptyStore, err |-> e]

InitFs == [path |-> [p \in PathNames |-> 0], ino |-> [i \in Inodes |-> NoFile]]

\* Path::exists
exists(f, p) == f.path[p] # 0

\* content found at a path
FileAt(f, p) == IF exists(f, p) THEN f.ino[f.path[p]] ELSE NoFile

\* inodes some path names, and the lowest inode neither named nor held open
Named(f) == {f.path[p] : p \in PathNames} \ {0}
Alloc(f, held) == CHOOSE i \in Inodes \ (Named(f) \cup held) :
                     \A j \in Inodes \ (Named(f) \cup held) : i <= j

\* an inode that is neither named nor held open is gone
Reclaim(f, held) ==
    [f EXCEPT !.ino = [i \in Inodes |->
        IF i \in Named(f) \cup held THEN f.ino[i] ELSE NoFile]]

\* open(path, O_WRONLY|O_CREAT|O_TRUNC): the file at the path, emptied; a new
\* one when there is none. The advisory lock of another holder does not stop
\* the truncation.
OpenTruncate(f, p, held) ==
    LET i == IF exists(f, p) THEN f.path[p] ELSE Alloc(f, held)
    IN [fs |-> [path |-> [f.path EXCEPT ![p] = i], ino |-> [f.ino EXCEPT ![i] = EmptyFile]],
        fd |-> i]

\* serialized length grows with the number of entries
DocLen(c) == Cardinality(DOMAIN c.nodes)

\* write_all at offset 0 of a descriptor opened for writing: bytes already in
\* the file beyond the written length stay behind the new document
WriteAll(f, i, c) ==
    [f EXCEPT !.ino[i] = IF DocLen(f.ino[i]) > DocLen(c) THEN TornFile(f.ino[i].nodes) ELSE c]

\* fs::rename(from, to) of an existing file: atomic replacement of the name
Rename(f, from, to) ==
    [f EXCEPT !.path = [f.path EXCEPT ![to] = f.path[from], ![from] = 0]]

\* fs::copy(primary, backup), start to end
Copy(f, held) ==
    LET o == OpenTruncate(f, "backup", held)
    IN [o.fs EXCEPT !.ino[o.fd] = FileAt(f, "primary")]

\* ------------------------------------------------------------------ registry
\* NodeRegistry::load_backup
load_backup(f) ==
    IF ~exists(f, "backup") THEN Ok(EmptyStore)
    ELSE LET r == read_to_string(FileAt(f, "backup"))
         IN IF ~r.ok THEN Err("Io")
            ELSE IF from_str(r.contents).ok THEN Ok(from_str(r.contents).data)
            ELSE Ok(EmptyStore)

\* NodeRegistry::load
load(f) ==
    IF ~exists(f, "primary") THEN Ok(EmptyStore)
    ELSE LET r == read_to_string(FileAt(f, "primary"))
         IN IF ~r.ok THEN Err("Io")
            ELSE IF from_str(r.contents).ok THEN Ok(from_str(r.contents).data)
            ELSE load_backup(f)

\* the same files with the inodes numbered in the order of the paths (inode
\* numbers carry no meaning when no process holds a file open)
Renumber(f) ==
    LET no(p) == CASE p = "primary" -> 1 [] p = "backup" -> 2 [] p = "tmp" -> 3
    IN [path |-> [p \in PathNames |-> IF exists(f, p) THEN no(p) ELSE 0],
        ino |-> [i \in Inodes |->
                   IF \E p \in PathNames : exists(f, p) /\ no(p) = i
                   THEN FileAt(f, CHOOSE p \in PathNames : exists(f, p) /\ no(p) = i)
                   ELSE NoFile]]

\* NodeRegistry::save, run without interruption by one process: the new file
\* system
save(f, data) ==
    LET f1 == IF exists(f, "primary") THEN Copy(f, {}) ELSE f
        o == OpenTruncate(f1, "tmp", {})
        f2 == WriteAll(o.fs, o.fd, to_string_pretty(data))
    IN Renumber(Rename(f2, "tmp", "primary"))

\* the in-memory step of each mutator
\* a register that keeps an entry already stored under the id
register_mut_keep(nodes, node) ==
    IF node.node_id \in DOMAIN nodes THEN nodes ELSE Insert(nodes, node.node_id, node)

register_mut(nodes, node) == Insert(nodes, node.node_id, node)

unregister_mut(nodes, id) == Remove(nodes, id)

\* an update_status that sets the status of every stored node
update_status_mut_all(nodes, id, status) ==
    [k \in DOMAIN nodes |-> [nodes[k] EXCEPT !.status = status]]

\* if let Some(node) = data.nodes.get_mut(node_id) { node.status = status }
update_status_mut(nodes, id, status) ==
    IF id \in DOMAIN nodes THEN [nodes EXCEPT ![id].status = status] ELSE nodes

mark_all_stopped_mut(nodes, chain) ==
    [k \in DOMAIN nodes |->
        IF nodes[k].chain = chain THEN [nodes[k] EXCEPT !.status = "stopped"] ELSE nodes[k]]

\* a clear_stopped that keeps only the running nodes
clear_stopped_mut_running(nodes) ==
    [k \in {x \in DOMAIN nodes : nodes[x].status = "running"} |-> nodes[k]]

clear_stopped_mut(nodes) ==
    [k \in {x \in DOMAIN nodes : nodes[x].status # "stopped"} |-> nodes[k]]

\* Option<NodeInfo>
None == [some |-> FALSE]
Some(v) == [some |-> TRUE, v |-> v]

\* NodeRegistry::get
get(f, id) ==
    LET r == load(f)
    IN IF ~r.ok THEN r
       ELSE Ok(IF id \in DOMAIN r.val THEN Some(r.val[id]) ELSE None)

\* NodeRegistry::list (the Vec in HashMap order, as the set of its elements)
list(f) ==
    LET r == load(f)
    IN IF ~r.ok THEN r ELSE Ok({r.val[k] : k \in DOMAIN r.val})

\* NodeRegistry::list_by_chain
list_by_chain(f, chain) ==
    LET r == load(f)
    IN IF ~r.ok THEN r ELSE Ok({r.val[k] : k \in {x \in DOMAIN r.val : r.val[x].chain = chain}})

\* the public mutators, each one load -> in-memory step -> save, as the pair
\* of the file system left behind and the Result returned
Done(f, r) == [fs |-> f, ret |-> r]

\* NodeRegistry::register
register(f, node) ==
    LET r == load(f)
    IN IF ~r.ok THEN Done(f, r) ELSE Done(save(f, register_mut(r.val, node)), Ok(EmptyStore))

\* NodeRegistry::unregister
unregister(f, id) ==
    LET r == load(f)
    IN IF ~r.ok THEN Done(f, r) ELSE Done(save(f, unregister_mut(r.val, id)), Ok(EmptyStore))

\* NodeRegistry::update_status
update_status(f, id, status) ==
    LET r == load(f)
    IN IF ~r.ok THEN Done(f, r)
       ELSE IF id \in DOMAIN r.val
            THEN Done(save(f, update_status_mut(r.val, id, status)), Ok(EmptyStore))
            ELSE Done(f, Ok(EmptyStore))

\* NodeRegistry::mark_all_stopped
mark_all_stopped(f, chain) ==
    LET r == load(f)
    IN IF ~r.ok THEN Done(f, r) ELSE Done(save(f, mark_all_stopped_mut(r.val, chain)), Ok(EmptyStore))

\* NodeRegistry::clear_stopped
clear_stopped(f) ==
    LET r == load(f)
    IN IF ~r.ok THEN Done(f, r) ELSE Done(save(f, clear_stopped_mut(r.val)), Ok(EmptyStore))

\* ------------------------------------------------------------------ funding
\* Accounts are sequences of cached balances (account.balance); the ledger
\* is the balance the chain holds for each of them. The backend of one call
\* is given by fails (for each account, how many send / airdrop requests for
\* it fail, counted from the first) and qfails (the accounts whose balance
\* query fails).

\* let mut retries = 3
Retries == 3

Targets(n, T) == [i \in 1..n |-> T]
Zeros(n) == [i \in 1..n |-> 0]

\* a set_balance that requests no airdrop
set_balance_none(current, target) == current

\* SolanaRpcClient::set_balance, on the chain balance of one account: an
\* airdrop of the difference when it is below the target
set_balance(current, target) == IF current >= target THEN current ELSE target

\* BitcoinRpcClient::set_balance on the balances the chain holds (owner 0 is
\* the wallet's own address, the others the accounts, imported into the
\* wallet by start): nothing when the address holds the target, else
\* send_to_address of the difference, which the wallet pays from coins of
\* src, an address it holds the key of; an error when src cannot pay
bitcoin_set_balance(ledger, address, target_btc, src) ==
    LET current == ledger[address]
        diff == target_btc - current
    IN IF current >= target_btc THEN [ret |-> "Ok", request |-> 0, ledger |-> ledger]
       ELSE IF ledger[src] < diff THEN [ret |-> "Rpc", request |-> diff, ledger |-> ledger]
       ELSE [ret |-> "Ok", request |-> diff,
             ledger |-> [x \in DOMAIN ledger |->
                           IF x = src /\ x = address THEN ledger[x]
                           ELSE IF x = src THEN ledger[x] - diff
                           ELSE IF x = address THEN ledger[x] + diff
                           ELSE ledger[x]]]

\* SolanaRpcClient::update_balances: a failed query is logged, the cached
\* balance stays
solana_update_balances(accounts, ledger, qfails) ==
    [accounts |-> [i \in DOMAIN accounts |-> IF i \in qfails THEN accounts[i] ELSE ledger[i]],
     ret |-> "Ok", named |-> {}]

\* SolanaRpcClient::set_balances: up to Retries attempts for each account,
\* a failure is logged; then update_balances
set_balances(accounts, ledger, fails, qfails) ==
    LET funded == {i \in DOMAIN accounts : fails[i] < Retries}
        ledger2 == [i \in DOMAIN accounts |->
                      IF i \in funded THEN set_balance(ledger[i], accounts[i]) ELSE ledger[i]]
        r == solana_update_balances(accounts, ledger2, qfails)
    IN [accounts |-> r.accounts, ledger |-> ledger2, ret |-> r.ret, named |-> {},
        attempted |-> DOMAIN accounts]

\* BitcoinRpcClient::fund_accounts: one send_to_address of the target for
\* each account with a positive target; a failed account is named in the
\* error and its balance set to 0
fund_accounts(accounts, ledger, fails) ==
    LET failed == {i \in DOMAIN accounts : accounts[i] > 0 /\ fails[i] > 0}
    IN [accounts |-> [i \in DOMAIN accounts |-> IF i \in failed THEN 0 ELSE accounts[i]],
        ledger |-> [i \in DOMAIN accounts |->
                      IF i \in failed THEN ledger[i] ELSE ledger[i] + accounts[i]],
        ret |-> IF failed = {} THEN "Ok" ELSE "Rpc", named |-> failed,
        attempted |-> {i \in DOMAIN accounts : accounts[i] > 0}]

\* BitcoinRpcClient::update_balances: the accounts whose query failed are
\* named in one error
bitcoin_update_balances(accounts, ledger, qfails) ==
    LET bad == qfails \cap DOMAIN accounts
    IN [accounts |-> [i \in DOMAIN accounts |-> IF i \in bad THEN accounts[i] ELSE ledger[i]],
        ret |-> IF bad = {} THEN "Ok" ELSE "Rpc", named |-> bad]

\* one request to the backend, in the order the requests are made: the
\* account it is about (mining_address for the wallet's own) and an amount
\* (blocks for "mine")
Rpc(call, to, amount) == [call |-> call, to |-> to, amount |-> amount]

\* the requests of one call for each account of 1..n in turn
ForEach(n, call, amount) == [i \in 1..n |-> Rpc(call, i, amount)]

\* wallet_client.get_new_address(Some("mining")): an address of the wallet
\* just created, none of the accounts 1..n
mining_address == 0

\* amounts of the block computation are counted in 1/FeeBuffer of the
\* 0.001 BTC fee buffer of one account
FeeBuffer == 128
Btc == 1000 * FeeBuffer

\* era = coinbase_blocks / 150
HalvingInterval == 150

\* 100 + coinbase_blocks.max(1)
MaturityDepth == 100

\* reward < 1e-8 from the era on in which 50 / 2^era first is
DustEra == 33

\* mine_blocks(6, &mining_address)
ConfirmBlocks == 6

\* reward = 50.0 / (1u64 << era) as f64
reward(era) == (50 * Btc) \div (2 ^ era)

\* the while loop of the block computation
RECURSIVE coinbase_loop(_, _, _)
coinbase_loop(accumulated, coinbase_blocks, total_btc_needed) ==
    IF accumulated < total_btc_needed /\ coinbase_blocks \div HalvingInterval < DustEra
    THEN coinbase_loop(accumulated + reward(coinbase_blocks \div HalvingInterval),
                       coinbase_blocks + 1, total_btc_needed)
    ELSE coinbase_blocks

\* fee_buffer = len * 0.001; total_btc_needed = len * initial_balance + fee_buffer
total_btc_needed(n, T) == n * T * Btc + n * FeeBuffer

\* a block count without the .max(1)
blocks_to_mine_min(n, T) == MaturityDepth + coinbase_loop(0, 0, total_btc_needed(n, T))

\* blocks_to_mine = 100 + coinbase_blocks.max(1)
blocks_to_mine(n, T) ==
    MaturityDepth + (IF coinbase_loop(0, 0, total_btc_needed(n, T)) > 1
                     THEN coinbase_loop(0, 0, total_btc_needed(n, T)) ELSE 1)

\* the funding block of SolanaProvider::start on n accounts of a fresh
\* chain: balances set to the target, set_balances(..)?, update_balances(..)?,
\* storage.save. saved is what accounts.json receives, cached what
\* self.accounts holds after start (the result of the block only when it
\* returned Ok), calls the requests made.
solana_funding(n, T, fails, qfails) ==
    LET r1 == set_balances(Targets(n, T), Zeros(n), fails, qfails)
        r2 == solana_update_balances(r1.accounts, r1.ledger, qfails)
        pass1 == ForEach(n, "set_balance", T) \o ForEach(n, "get_balance", 0)
    IN IF r1.ret # "Ok" THEN [ret |-> r1.ret, saved |-> None, ledger |-> r1.ledger,
                              cached |-> Targets(n, T), calls |-> pass1]
       ELSE IF r2.ret # "Ok" THEN [ret |-> r2.ret, saved |-> None, ledger |-> r1.ledger,
                                   cached |-> Targets(n, T),
                                   calls |-> pass1 \o ForEach(n, "get_balance", 0)]
       ELSE [ret |-> "Ok", saved |-> Some(r2.accounts), ledger |-> r1.ledger,
             cached |-> r2.accounts,
             calls |-> pass1 \o ForEach(n, "get_balance", 0) \o <<Rpc("save", 0, 0)>>]

\* a start that imports the accounts into the wallet before it funds them
fund_then_import_swapped(sends, confirm, imports) == imports \o confirm \o sends

\* BitcoinProvider::start: fund_accounts, then mine_blocks(6), then the
\* import_address loop
fund_then_import(sends, confirm, imports) == sends \o confirm \o imports

\* the funding block of BitcoinProvider::start: blocks mined to the mining
\* address, the wallet balance check (short: the wallet holds too little),
\* balances set to the target, fund_accounts (its error is logged),
\* mine_blocks(6)?, import_address(..)? for each account, update_balances(..)?,
\* storage.save. broken names the request that fails outright: "confirm"
\* the mining of the confirmation blocks, "import" the first import.
bitcoin_funding(n, T, short, fails, qfails, broken) ==
    LET r1 == fund_accounts(Targets(n, T), Zeros(n), fails)
        r2 == bitcoin_update_balances(r1.accounts, r1.ledger, qfails)
        mined == <<Rpc("mine", mining_address, blocks_to_mine(n, T)),
                   Rpc("get_wallet_balance", mining_address, 0)>>
        sent == mined \o (IF T > 0 THEN ForEach(n, "send_to_address", T) ELSE <<>>)
        confirmed == sent \o <<Rpc("mine", mining_address, ConfirmBlocks)>>
        imported == mined \o fund_then_import(
                        IF T > 0 THEN ForEach(n, "send_to_address", T) ELSE <<>>,
                        <<Rpc("mine", mining_address, ConfirmBlocks)>>,
                        ForEach(n, "import_address", 0))
        queried == imported \o ForEach(n, "get_balance", 0)
    IN IF short THEN [ret |-> "Other", saved |-> None, ledger |-> Zeros(n),
                      cached |-> Targets(n, T), calls |-> mined]
       ELSE IF broken = "confirm"
            THEN [ret |-> "Rpc", saved |-> None, ledger |-> r1.ledger,
                  cached |-> Targets(n, T), calls |-> confirmed]
       ELSE IF broken = "import" /\ n > 0
            THEN [ret |-> "Rpc", saved |-> None, ledger |-> r1.ledger,
                  cached |-> Targets(n, T), calls |-> confirmed \o <<Rpc("import_address", 1, 0)>>]
       ELSE IF r2.ret # "Ok" THEN [ret |-> r2.ret, saved |-> None, ledger |-> r1.ledger,
                                   cached |-> Targets(n, T), calls |-> queried]
       ELSE [ret |-> "Ok", saved |-> Some(r2.accounts), ledger |-> r1.ledger,
             cached |-> r2.accounts, calls |-> queried \o <<Rpc("save", 0, 0)>>]

\* ------------------------------------------------------------------ paths
\* A string is the sequence of its characters, a path the sequence of its
\* components (Path::components, by which PathBuf compares): the root, then
\* the names between separators.
IdChars == {"a", "1", "-", "/", "."}

InstanceIds == UNION {[1..n -> IdChars] : n \in 0..MaxIdLen}

\* a validate_name that accepts every name
validate_name_any(name) == TRUE

\* validate_name: not empty, no hyphen first or last, no two hyphens in a
\* row, only lowercase letters, digits and hyphens
validate_name(name) ==
    /\ name # <<>>
    /\ name[1] # "-" /\ name[Len(name)] # "-"
    /\ \A i \in 1..(Len(name) - 1) : ~(name[i] = "-" /\ name[i + 1] = "-")
    /\ \A i \in 1..Len(name) : name[i] \in {"a", "1", "-"}

\* Path::components of a relative string that follows a base: the names
\* between separators, empty names and "." left out
RECURSIVE components(_)
components(s) ==
    IF s = <<>> THEN <<>>
    ELSE LET k == CHOOSE j \in 1..(Len(s) + 1) :
                      /\ j = Len(s) + 1 \/ s[j] = "/"
                      /\ \A i \in 1..(j - 1) : s[i] # "/"
             name == SubSeq(s, 1, k - 1)
         IN (IF name \in {<<>>, <<".">>} THEN <<>> ELSE <<name>>)
            \o components(SubSeq(s, k + 1, Len(s)))

\* Path::join: an absolute argument replaces the base
join(base, s) ==
    IF s # <<>> /\ s[1] = "/" THEN <<<<"/">>>> \o components(s) ELSE base \o components(s)

\* Config::data_dir: the home directory joined with DATA_DIR_NAME
data_dir == <<<<"/">>, <<"home">>, <<".chain-forge">>>>

\* SolanaConfig / BitcoinConfig :: instance_dir, accounts_file,
\* instance_info_file
instance_dir(chain, instance_id) ==
    join(join(join(data_dir, <<chain>>), <<"instances">>), instance_id)

accounts_file(chain, instance_id) == join(instance_dir(chain, instance_id), <<"accounts.json">>)

instance_info_file(chain, instance_id) ==
    join(instance_dir(chain, instance_id), <<"instance.json">>)

\* ------------------------------------------------------------------ state
VARIABLES
    fs,      \* the registry directory: path -> inode, inode -> content
    last,    \* SpecReg: the call that returned last, with what load gave before it
    pc,      \* SpecConc: where each process stands in its registry call
    op,      \* SpecConc: the call each process is in, or made last
    data,    \* SpecConc: the RegistryData each process holds in memory
    fd,      \* SpecConc: the inode each process holds open (0: none)
    xlock,   \* SpecConc: the holder of the exclusive flock of each inode (0: none)
    ret,     \* SpecConc: what the last call of each process returned
    obs,     \* SpecConc: the content the last load of each process read from registry.json
    nops,    \* SpecConc: calls each process has begun
    kind,    \* SpecOrch: the provider type each process owns
    config,  \* SpecOrch: self.config.instance_id of each provider
    keep_data,   \* SpecOrch: self.keep_data
    process,     \* SpecOrch: validator_process / bitcoind_process is Some
    rpc_client,  \* SpecOrch: self.rpc_client is Some
    child,   \* SpecOrch: the daemon each provider spawned last
    leaked,  \* SpecOrch: nodes with a live daemon no provider holds a handle of
    disk,    \* SpecOrch: the instance directory of each node
    opc,     \* SpecOrch: where each provider stands in start / stop
    call,    \* SpecOrch: the call each provider is in or made last, and the one before
    acts,    \* SpecOrch: what the current or last call of each provider has done
    accounts,    \* SpecOrch: self.accounts, the cached balance of each account
    fund,    \* SpecOrch: the backend the funding block of the last start met
    backend, \* SpecOrch, SpecStart: whether the daemons' RPC may fail a funding request
    pass     \* SpecFund, SpecUnit: one call of one function, its input and its result

regVars == <<last>>
concVars == <<pc, op, data, fd, xlock, ret, obs, nops>>
acctVars == <<accounts, fund>>
fundVars == <<backend, pass>>
orchVars == <<kind, config, keep_data, process, rpc_client, child, leaked, disk, opc, call, acts,
              acctVars, fundVars>>
vars == <<fs, last, pc, op, data, fd, xlock, ret, obs, nops,
          kind, config, keep_data, process, rpc_client, child, leaked, disk, opc, call, acts,
          accounts, fund, backend, pass>>

\* entries a caller can hand to register: NodeInfo::new, then the public
\* status field set as the caller likes (test_clear_stopped does)
RegInputs == {[NodeInfoNew(c, i, DefaultPort(c)) EXCEPT !.status = s] :
                c \in ChainType, i \in Instances, s \in NodeStatus}

NoCall == [op |-> "none", arg |-> <<>>, before |-> Ok(EmptyStore), ret |-> Ok(EmptyStore)]

Call(name, arg, r) == [op |-> name, arg |-> arg, before |-> load(fs), ret |-> r]

\* an instance directory: whether it exists, accounts.json (the balance of
\* each account, if the file is there) and instance.json ("none", "running",
\* "stopped")
NoDir == [dir |-> FALSE, accounts |-> None, info |-> "none"]

\* the fields of SolanaConfig / BitcoinConfig that start and stop read
Config(instance_id, n, T) == [instance_id |-> instance_id, accounts |-> n, initial_balance |-> T]

Configs == {Config(i, n, T) : i \in Instances, n \in 1..MaxAccounts, T \in 1..MaxBalance}

\* no funding block run in this call
NoFund == [reached |-> FALSE, failed |-> {}, ledger |-> <<>>]

\* no funding pass
NoPass == [stage |-> "none"]

\* no call made yet
NoCalls == [cur |-> "none", ret |-> "Ok", prev |-> "none", saw_running |-> FALSE, n |-> 0,
            up |-> FALSE]

NoOp == [name |-> "none", id |-> node_id("solana", 1), status |-> "running",
         node |-> NodeInfoNew("solana", 1, DefaultPort("solana"))]

\* SolanaProvider::with_config / BitcoinProvider::with_config, on a data
\* directory with no instance in it
InitProviders ==
    /\ config = [p \in Procs |-> Config(1, 1, 1)]
    /\ keep_data = [p \in Procs |-> FALSE]
    /\ process = [p \in Procs |-> FALSE]
    /\ rpc_client = [p \in Procs |-> FALSE]
    /\ child = [p \in Procs |-> "none"]
    /\ leaked = {}
    /\ disk = [n \in NodeIds |-> NoDir]
    /\ opc = [p \in Procs |-> "idle"]
    /\ call = [p \in Procs |-> NoCalls]
    /\ acts = [p \in Procs |-> {}]
    /\ accounts = [p \in Procs |-> <<>>]
    /\ fund = [p \in Procs |-> NoFund]

\* the registry files and the registry callers before any call
InitRegistry ==
    /\ fs = InitFs
    /\ last = NoCall
    /\ pc = [p \in Procs |-> "idle"]
    /\ op = [p \in Procs |-> NoOp]
    /\ data = [p \in Procs |-> EmptyStore]
    /\ fd = [p \in Procs |-> 0]
    /\ xlock = [i \in Inodes |-> 0]
    /\ ret = [p \in Procs |-> Ok(EmptyStore)]
    /\ obs = [p \in Procs |-> NoFile]
    /\ nops = [p \in Procs |-> 0]

Init ==
    /\ InitRegistry
    /\ kind = [p \in Procs |-> "solana"]
    /\ InitProviders
    /\ backend = "healthy"
    /\ pass = NoPass

\* each process owns a provider of either chain
InitOrch ==
    /\ InitRegistry
    /\ kind \in [Procs -> ChainType]
    /\ InitProviders
    /\ backend = "healthy"
    /\ pass = NoPass

\* the same, the daemons answering funding requests and balance queries
\* with errors as they like
InitStart ==
    /\ InitRegistry
    /\ kind \in [Procs -> ChainType]
    /\ InitProviders
    /\ backend = "faulty"
    /\ pass = NoPass

\* ------------------------------------------------------------------ SpecReg
Register ==
    \E e \in RegInputs :
        /\ fs' = register(fs, e).fs
        /\ last' = Call("register", e, register(fs, e).ret)
        /\ UNCHANGED <<concVars, orchVars>>

Unregister ==
    \E id \in NodeIds :
        /\ fs' = unregister(fs, id).fs
        /\ last' = Call("unregister", id, unregister(fs, id).ret)
        /\ UNCHANGED <<concVars, orchVars>>

UpdateStatus ==
    \E id \in NodeIds, s \in NodeStatus :
        /\ fs' = update_status(fs, id, s).fs
        /\ last' = Call("update_status", <<id, s>>, update_status(fs, id, s).ret)
        /\ UNCHANGED <<concVars, orchVars>>

MarkAllStopped ==
    \E c \in ChainType :
        /\ fs' = mark_all_stopped(fs, c).fs
        /\ last' = Call("mark_all_stopped", c, mark_all_stopped(fs, c).ret)
        /\ UNCHANGED <<concVars, orchVars>>

ClearStopped ==
    /\ fs' = clear_stopped(fs).fs
    /\ last' = Call("clear_stopped", <<>>, clear_stopped(fs).ret)
    /\ UNCHANGED <<concVars, orchVars>>

Get ==
    \E id \in NodeIds :
        /\ last' = Call("get", id, get(fs, id))
        /\ UNCHANGED <<fs, concVars, orchVars>>

List ==
    /\ last' = Call("list", <<>>, list(fs))
    /\ UNCHANGED <<fs, concVars, orchVars>>

ListByChain ==
    \E c \in ChainType :
        /\ last' = Call("list_by_chain", c, list_by_chain(fs, c))
        /\ UNCHANGED <<fs, concVars, orchVars>>

NextReg ==
    \/ Register
    \/ Unregister
    \/ UpdateStatus
    \/ MarkAllStopped
    \/ ClearStopped
    \/ Get
    \/ List
    \/ ListByChain

SpecReg == Init /\ [][NextReg]_vars

\* ------------------------------------------------------------------ SpecCorr
\* registry.json or registry.json.bak damaged from outside the program (a
\* torn write at power loss, a manual edit): emptied, left as text that is no
\* registry document, or left with bytes that are not UTF-8
CorruptFile ==
    \E p \in {"primary", "backup"}, k \in {"empty", "text", "bytes"} :
        /\ exists(fs, p)
        /\ fs' = [fs EXCEPT !.ino[fs.path[p]] = [kind |-> k, nodes |-> EmptyStore]]
        /\ last' = Call("corrupt", <<p, k>>, Ok(EmptyStore))
        /\ UNCHANGED <<concVars, orchVars>>

NextCorr ==
    \/ NextReg
    \/ CorruptFile

SpecCorr == Init /\ [][NextCorr]_vars

\* ------------------------------------------------------------------ SpecConc
\* Each process runs registry calls one system call at a time. A call is
\* load (exists + open; shared lock + read + unlock; the backup when the
\* parse fails), the in-memory step, then save (copy to the backup; open the
\* temporary file with truncation; exclusive lock; write + sync + unlock;
\* rename).

\* inodes held open by processes other than p
HeldBy(others) == {fd[q] : q \in others} \ {0}

\* calls a process makes: those of the providers and the readers (register
\* of a NodeInfo::new entry, update_status to Stopped, list)
ConcOp(name, id, status) ==
    [name |-> name, id |-> id, status |-> status,
     node |-> [NodeInfoNew(id[1], id[2], DefaultPort(id[1])) EXCEPT !.status = status]]

ConcOps ==
    {ConcOp("register", id, "running") : id \in NodeIds}
    \cup {ConcOp("update_status", id, "stopped") : id \in NodeIds}
    \cup {ConcOp("list", node_id("solana", 1), "running")}

\* the in-memory step of call o on the loaded nodes
Mutate(o, nodes) ==
    CASE o.name = "register" -> register_mut(nodes, o.node)
      [] o.name = "update_status" -> update_status_mut(nodes, o.id, o.status)
      [] OTHER -> nodes

\* whether call o goes on to save after loading nodes
Saves(o, nodes) ==
    CASE o.name = "list" -> FALSE
      [] o.name = "update_status" -> o.id \in DOMAIN nodes
      [] OTHER -> TRUE

\* the call of p has loaded r (a Result): return, or go on to save
Loaded(p, r) ==
    IF r.ok /\ Saves(op[p], r.val)
    THEN /\ data' = [data EXCEPT ![p] = Mutate(op[p], r.val)]
         /\ pc' = [pc EXCEPT ![p] = "save_copy"]
         /\ UNCHANGED ret
    ELSE /\ ret' = [ret EXCEPT ![p] =
                      IF r.ok /\ op[p].name = "list" THEN Ok({r.val[k] : k \in DOMAIN r.val})
                      ELSE IF r.ok THEN Ok(EmptyStore) ELSE r]
         /\ pc' = [pc EXCEPT ![p] = "idle"]
         /\ UNCHANGED data

Begin(p) ==
    /\ pc[p] = "idle"
    /\ nops[p] < MaxOps
    /\ \E o \in ConcOps : op' = [op EXCEPT ![p] = o]
    /\ pc' = [pc EXCEPT ![p] = "load"]
    /\ nops' = [nops EXCEPT ![p] = @ + 1]
    /\ obs' = [obs EXCEPT ![p] = NoFile]
    /\ UNCHANGED <<fs, data, fd, xlock, ret, regVars, orchVars>>

\* load: registry_path.exists(), File::open
LoadOpen(p) ==
    /\ pc[p] = "load"
    /\ IF exists(fs, "primary")
       THEN /\ fd' = [fd EXCEPT ![p] = fs.path["primary"]]
            /\ pc' = [pc EXCEPT ![p] = "load_read"]
            /\ UNCHANGED <<data, ret>>
       ELSE /\ Loaded(p, Ok(EmptyStore))
            /\ UNCHANGED fd
    /\ UNCHANGED <<fs, op, xlock, obs, nops, regVars, orchVars>>

\* load: lock_shared (waits for an exclusive holder), read_to_string, unlock,
\* from_str
LoadRead(p) ==
    /\ pc[p] = "load_read"
    /\ xlock[fd[p]] = 0
    /\ LET c == fs.ino[fd[p]]
       IN /\ obs' = [obs EXCEPT ![p] = c]
          /\ IF ~read_to_string(c).ok THEN Loaded(p, Err("Io"))
             ELSE IF from_str(c).ok THEN Loaded(p, Ok(from_str(c).data))
             ELSE /\ pc' = [pc EXCEPT ![p] = "load_backup"]
                  /\ UNCHANGED <<data, ret>>
    /\ fd' = [fd EXCEPT ![p] = 0]
    /\ fs' = Reclaim(fs, HeldBy(Procs \ {p}))
    /\ UNCHANGED <<op, xlock, nops, regVars, orchVars>>

\* load: load_backup
LoadBackup(p) ==
    /\ pc[p] = "load_backup"
    /\ Loaded(p, load_backup(fs))
    /\ UNCHANGED <<fs, op, fd, xlock, obs, nops, regVars, orchVars>>

\* save: fs::copy opens registry.json and opens registry.json.bak truncated
SaveCopyOpen(p) ==
    /\ pc[p] = "save_copy"
    /\ IF exists(fs, "primary")
       THEN /\ fs' = OpenTruncate(fs, "backup", HeldBy(Procs)).fs
            /\ fd' = [fd EXCEPT ![p] = fs.path["primary"]]
            /\ pc' = [pc EXCEPT ![p] = "save_copy_end"]
       ELSE /\ pc' = [pc EXCEPT ![p] = "save_open"]
            /\ UNCHANGED <<fs, fd>>
    /\ UNCHANGED <<op, data, xlock, ret, obs, nops, regVars, orchVars>>

\* save: fs::copy has written what the opened registry.json holds
SaveCopyEnd(p) ==
    /\ pc[p] = "save_copy_end"
    /\ fs' = Reclaim([fs EXCEPT !.ino[fs.path["backup"]] = fs.ino[fd[p]]], HeldBy(Procs \ {p}))
    /\ fd' = [fd EXCEPT ![p] = 0]
    /\ pc' = [pc EXCEPT ![p] = "save_open"]
    /\ UNCHANGED <<op, data, xlock, ret, obs, nops, regVars, orchVars>>

\* save: OpenOptions write + create + truncate on registry.json.tmp
SaveOpen(p) ==
    /\ pc[p] = "save_open"
    /\ LET o == OpenTruncate(fs, "tmp", HeldBy(Procs))
       IN /\ fs' = o.fs
          /\ fd' = [fd EXCEPT ![p] = o.fd]
    /\ pc' = [pc EXCEPT ![p] = "save_lock"]
    /\ UNCHANGED <<op, data, xlock, ret, obs, nops, regVars, orchVars>>

\* save: lock_exclusive (waits for another exclusive holder)
SaveLock(p) ==
    /\ pc[p] = "save_lock"
    /\ xlock[fd[p]] = 0
    /\ xlock' = [xlock EXCEPT ![fd[p]] = p]
    /\ pc' = [pc EXCEPT ![p] = "save_write"]
    /\ UNCHANGED <<fs, op, data, fd, ret, obs, nops, regVars, orchVars>>

\* save: write_all, sync_all, unlock, and the file is closed
SaveWrite(p) ==
    /\ pc[p] = "save_write"
    /\ fs' = Reclaim(WriteAll(fs, fd[p], to_string_pretty(data[p])), HeldBy(Procs \ {p}))
    /\ xlock' = [xlock EXCEPT ![fd[p]] = 0]
    /\ fd' = [fd EXCEPT ![p] = 0]
    /\ pc' = [pc EXCEPT ![p] = "save_rename"]
    /\ UNCHANGED <<op, data, ret, obs, nops, regVars, orchVars>>

\* save: fs::rename(registry.json.tmp, registry.json); NotFound when another
\* writer has renamed the shared temporary file away
SaveRename(p) ==
    /\ pc[p] = "save_rename"
    /\ IF exists(fs, "tmp")
       THEN /\ fs' = Reclaim(Rename(fs, "tmp", "primary"), HeldBy(Procs))
            /\ ret' = [ret EXCEPT ![p] = Ok(EmptyStore)]
       ELSE /\ ret' = [ret EXCEPT ![p] = Err("Io")]
            /\ UNCHANGED fs
    /\ pc' = [pc EXCEPT ![p] = "idle"]
    /\ UNCHANGED <<op, data, fd, xlock, obs, nops, regVars, orchVars>>

\* the process dies inside a call: its descriptors close and its locks go.
\* Killed inside write_all, it may leave a torn document behind.
Crash(p) ==
    /\ pc[p] # "idle"
    /\ \E torn \in BOOLEAN :
          /\ torn => pc[p] = "save_write" /\ DocLen(to_string_pretty(data[p])) > 0
          /\ fs' = Reclaim(IF torn THEN [fs EXCEPT !.ino[fd[p]] = TornFile(data[p])] ELSE fs,
                           HeldBy(Procs \ {p}))
    /\ xlock' = [i \in Inodes |-> IF xlock[i] = p THEN 0 ELSE xlock[i]]
    /\ fd' = [fd EXCEPT ![p] = 0]
    /\ ret' = [ret EXCEPT ![p] = Err("crashed")]
    /\ pc' = [pc EXCEPT ![p] = "idle"]
    /\ UNCHANGED <<op, data, obs, nops, regVars, orchVars>>

NextConc ==
    \E p \in Procs :
        \/ Begin(p)
        \/ LoadOpen(p)
        \/ LoadRead(p)
        \/ LoadBackup(p)
        \/ SaveCopyOpen(p)
        \/ SaveCopyEnd(p)
        \/ SaveOpen(p)
        \/ SaveLock(p)
        \/ SaveWrite(p)
        \/ SaveRename(p)
        \/ Crash(p)

SpecConc == Init /\ [][NextConc]_vars

\* ------------------------------------------------------------------ SpecSave
\* One process running registry calls one system call at a time, on files
\* that earlier calls left and that are damaged from outside between calls.
Writer == 1

\* registry files after no, one and two register calls
SavedFs ==
    {InitFs}
    \cup {register(InitFs, a.node).fs : a \in {o \in ConcOps : o.name = "register"}}
    \cup {register(register(InitFs, a.node).fs, b.node).fs :
             a, b \in {o \in ConcOps : o.name = "register"}}

InitSave ==
    /\ fs \in SavedFs
    /\ last = NoCall
    /\ pc = [p \in Procs |-> "idle"]
    /\ op = [p \in Procs |-> NoOp]
    /\ data = [p \in Procs |-> EmptyStore]
    /\ fd = [p \in Procs |-> 0]
    /\ xlock = [i \in Inodes |-> 0]
    /\ ret = [p \in Procs |-> Ok(EmptyStore)]
    /\ obs = [p \in Procs |-> NoFile]
    /\ nops = [p \in Procs |-> 0]
    /\ kind = [p \in Procs |-> "solana"]
    /\ InitProviders
    /\ backend = "healthy"
    /\ pass = NoPass

\* damage to a registry file while no call is running
DamageIdle ==
    /\ pc[Writer] = "idle"
    /\ CorruptFile

NextSave ==
    \/ \E p \in {Writer} :
        \/ Begin(p)
        \/ LoadOpen(p)
        \/ LoadRead(p)
        \/ LoadBackup(p)
        \/ SaveCopyOpen(p)
        \/ SaveCopyEnd(p)
        \/ SaveOpen(p)
        \/ SaveLock(p)
        \/ SaveWrite(p)
        \/ SaveRename(p)
        \/ Crash(p)
    \/ DamageIdle

SpecSave == InitSave /\ [][NextSave]_vars

\* ------------------------------------------------------------------ SpecOrch
\* Each process owns one provider and calls start(config), stop() and
\* set_keep_data on it; the daemons it spawns live and die on their own. The
\* registry calls inside start and stop are whole load -> save cycles here.

\* the node a provider's config names
Node(p) == node_id(kind[p], config[p].instance_id)

\* instances of one chain are configured on ports of their own
PortOf(chain, instance_id) == DefaultPort(chain) + instance_id - 1

\* a daemon of node n is up (spawned, not yet exited) other than p's own child
Listening(n, p) ==
    \/ n \in leaked
    \/ \E q \in Procs \ {p} : Node(q) = n /\ child[q] \in {"alive", "killed"}

\* the call p enters now, the one it made last moved back; up says that the
\* start which spawned the daemon of p returned Ok
Enter(p, name, saw) ==
    [cur |-> name, ret |-> "Pending", prev |-> call[p].cur, saw_running |-> saw,
     n |-> call[p].n + 1, up |-> call[p].up]

\* the call of p returns r
Return(p, r) ==
    /\ call' = [call EXCEPT ![p].ret = r]
    /\ opc' = [opc EXCEPT ![p] = "idle"]

Did(p, a) == acts' = [acts EXCEPT ![p] = @ \cup {a}]

\* whether the registry holds a Running entry for id
RegistryRunning(f, id) ==
    /\ load(f).ok
    /\ id \in DOMAIN load(f).val
    /\ load(f).val[id].status = "running"

\* the registry check at the head of start: SolanaProvider::start asks
\* registry.get for a Running entry, BitcoinProvider::start asks nothing
start_check(chain, f, id) ==
    /\ chain = "solana"
    /\ get(f, id).ok
    /\ get(f, id).val.some
    /\ get(f, id).val.v.status = "running"

\* a take() that leaves the handle in place
take_peek(handles, p) == handles

\* Option::take on the process handle of p: the handle is gone
take(handles, p) == [handles EXCEPT ![p] = FALSE]

\* set_keep_data, called as the command line does: on the provider just
\* constructed
SetKeepData(p) ==
    /\ opc[p] = "idle"
    /\ call[p].cur = "none"
    /\ ~keep_data[p]
    /\ keep_data' = [keep_data EXCEPT ![p] = ~@]
    /\ UNCHANGED <<fs, regVars, concVars, kind, acctVars, fundVars, config, process, rpc_client, child, leaked,
                   disk, opc, call, acts>>

\* an is_running that also trusts the running flag of instance.json
is_running_snapshot(p) == process[p] \/ disk[Node(p)].info = "running"

\* is_running: process_guard.is_some()
is_running(p) == process[p]

\* start: is_running(), self.config = config, the registry check
StartBegin(p) ==
    /\ opc[p] = "idle"
    /\ call[p].n < MaxCalls
    /\ \E c \in Configs :
          LET id == node_id(kind[p], c.instance_id)
              saw == RegistryRunning(fs, id)
          IN /\ acts' = [acts EXCEPT ![p] = {}]
             /\ fund' = [fund EXCEPT ![p] = NoFund]
             /\ IF is_running(p)
                THEN /\ call' = [call EXCEPT ![p] = [Enter(p, "start", saw) EXCEPT !.ret = "AlreadyRunning"]]
                     /\ UNCHANGED <<config, opc>>
                ELSE /\ config' = [config EXCEPT ![p] = c]
                     /\ IF start_check(kind[p], fs, id)
                        THEN /\ call' = [call EXCEPT ![p] = [Enter(p, "start", saw) EXCEPT !.ret = "NodeManagement"]]
                             /\ UNCHANGED opc
                        ELSE /\ call' = [call EXCEPT ![p] = [Enter(p, "start", saw) EXCEPT !.up = FALSE]]
                             /\ opc' = [opc EXCEPT ![p] = "clear"]
    /\ UNCHANGED <<fs, regVars, concVars, kind, accounts, fundVars, keep_data, process, rpc_client,
                   child, leaked, disk>>

\* start: clear_instance_data, generate_accounts
StartClear(p) ==
    /\ opc[p] = "clear"
    /\ accounts' = [accounts EXCEPT ![p] = Targets(config[p].accounts, config[p].initial_balance)]
    /\ disk' = [disk EXCEPT ![Node(p)] = [dir |-> TRUE, accounts |-> Some(accounts'[p]),
                                           info |-> "none"]]
    /\ Did(p, "reset")
    /\ opc' = [opc EXCEPT ![p] = "spawn"]
    /\ UNCHANGED <<fs, regVars, concVars, kind, fund, fundVars, config, keep_data, process, rpc_client, child,
                   leaked, call>>

\* start: start_validator (port checks, log directory, spawn) /
\* start_bitcoind (data directory, spawn; no port check, a daemon that
\* cannot bind its port exits)
StartSpawn(p) ==
    /\ opc[p] = "spawn"
    /\ IF kind[p] = "solana" /\ Listening(Node(p), p)
       THEN /\ Return(p, "NodeManagement")
            /\ Did(p, "port_bound")
            /\ UNCHANGED <<process, child, disk>>
       ELSE /\ process' = [process EXCEPT ![p] = TRUE]
            /\ child' = [child EXCEPT ![p] = IF Listening(Node(p), p) THEN "dead" ELSE "alive"]
            /\ disk' = [disk EXCEPT ![Node(p)].dir = TRUE]
            /\ acts' = [acts EXCEPT ![p] = @ \cup (IF Listening(Node(p), p)
                                                    THEN {"spawn", "port_bound"} ELSE {"spawn"})]
            /\ opc' = [opc EXCEPT ![p] = IF kind[p] = "solana" THEN "early" ELSE "info"]
            /\ UNCHANGED call
    /\ UNCHANGED <<fs, regVars, concVars, kind, acctVars, fundVars, config, keep_data, rpc_client, leaked>>

\* start (Solana): after the pause, try_wait on the child
StartEarlyExit(p) ==
    /\ opc[p] = "early"
    /\ IF child[p] = "dead"
       THEN /\ process' = take(process, p)
            /\ child' = [child EXCEPT ![p] = "none"]
            /\ Return(p, "NodeManagement")
       ELSE /\ opc' = [opc EXCEPT ![p] = "info"]
            /\ UNCHANGED <<process, child, call>>
    /\ UNCHANGED <<fs, regVars, concVars, kind, acctVars, fundVars, config, keep_data, rpc_client, leaked, disk, acts>>

\* a start that registers the node together with instance.json, before the
\* daemon is known to be ready
StartSaveInfo_publish(p) ==
    /\ opc[p] = "info"
    /\ disk' = [disk EXCEPT ![Node(p)].dir = TRUE, ![Node(p)].info = "running"]
    /\ fs' = register(fs, NodeInfoNew(kind[p], config[p].instance_id,
                                       PortOf(kind[p], config[p].instance_id))).fs
    /\ acts' = [acts EXCEPT ![p] = @ \cup {"snapshot", "registry"}]
    /\ opc' = [opc EXCEPT ![p] = "wait"]
    /\ UNCHANGED <<regVars, concVars, kind, acctVars, fundVars, config, keep_data, process, rpc_client, child,
                   leaked, call>>

\* start: save_instance_info
StartSaveInfo(p) ==
    /\ opc[p] = "info"
    /\ disk' = [disk EXCEPT ![Node(p)].dir = TRUE, ![Node(p)].info = "running"]
    /\ Did(p, "snapshot")
    /\ opc' = [opc EXCEPT ![p] = "wait"]
    /\ UNCHANGED <<fs, regVars, concVars, kind, acctVars, fundVars, config, keep_data, process, rpc_client, child,
                   leaked, call>>

\* start: wait_for_validator(60) / wait_for_node(60) against the rpc url:
\* ready when a daemon answers there in time
StartWait(p) ==
    /\ opc[p] = "wait"
    /\ \E ready \in BOOLEAN :
          /\ ready => child[p] = "alive" \/ Listening(Node(p), p)
          /\ IF ready
             THEN opc' = [opc EXCEPT ![p] = "fund"] /\ UNCHANGED call
             ELSE Return(p, "NodeManagement")
    /\ UNCHANGED <<fs, regVars, concVars, kind, acctVars, fundVars, config, keep_data, process, rpc_client, child,
                   leaked, disk, acts>>

\* start: the funding block against a backend that (short) holds too little
\* in its wallet, fails the funding of some accounts and the balance query
\* of some; then self.accounts = result
StartFund(p) ==
    /\ opc[p] = "fund"
    /\ LET n == Len(accounts[p])
           T == config[p].initial_balance
       IN \E fails \in [1..n -> {0, Retries}], qfails \in SUBSET (1..n), short \in BOOLEAN,
             broken \in {"none", "confirm", "import"} :
             LET r == IF kind[p] = "solana" THEN solana_funding(n, T, fails, qfails)
                      ELSE bitcoin_funding(n, T, short, fails, qfails, broken)
                 sound == ~short /\ broken = "none"
             IN /\ ~sound => kind[p] = "bitcoin" /\ qfails = {} /\ fails = [i \in 1..n |-> 0]
                /\ short => broken = "none"
                /\ backend = "healthy" => sound /\ qfails = {} /\ fails = [i \in 1..n |-> 0]
                /\ fund' = [fund EXCEPT ![p] = [reached |-> TRUE,
                                                failed |-> {i \in 1..n : fails[i] # 0},
                                                ledger |-> r.ledger]]
                /\ IF r.ret = "Ok"
                   THEN /\ disk' = [disk EXCEPT ![Node(p)].dir = TRUE,
                                                ![Node(p)].accounts = r.saved]
                        /\ accounts' = [accounts EXCEPT ![p] = r.saved.v]
                        /\ opc' = [opc EXCEPT ![p] = "register"]
                        /\ UNCHANGED call
                   ELSE /\ Return(p, r.ret)
                        /\ UNCHANGED <<disk, accounts>>
    /\ UNCHANGED <<fs, regVars, concVars, kind, fundVars, config, keep_data, process, rpc_client,
                   child, leaked, acts>>

\* a start that returns the error of register_with_registry
StartRegister_fatal(p) ==
    /\ opc[p] = "register"
    /\ LET r == register(fs, NodeInfoNew(kind[p], config[p].instance_id,
                                         PortOf(kind[p], config[p].instance_id)))
       IN /\ fs' = r.fs
          /\ acts' = [acts EXCEPT ![p] = @ \cup (IF r.ret.ok THEN {"registry"}
                                                  ELSE {"registry", "registry_error"})]
          /\ rpc_client' = [rpc_client EXCEPT ![p] = r.ret.ok]
          /\ call' = [call EXCEPT ![p].ret = IF r.ret.ok THEN "Ok" ELSE r.ret.err,
                                  ![p].up = r.ret.ok]
    /\ opc' = [opc EXCEPT ![p] = "idle"]
    /\ UNCHANGED <<regVars, concVars, kind, acctVars, fundVars, config, keep_data, process, child, leaked, disk>>

\* start: self.rpc_client = Some(..), register_with_registry (an error is
\* logged), Ok
StartRegister(p) ==
    /\ opc[p] = "register"
    /\ rpc_client' = [rpc_client EXCEPT ![p] = TRUE]
    /\ LET r == register(fs, NodeInfoNew(kind[p], config[p].instance_id,
                                         PortOf(kind[p], config[p].instance_id)))
       IN /\ fs' = r.fs
          /\ acts' = [acts EXCEPT ![p] = @ \cup (IF r.ret.ok THEN {"registry"}
                                                  ELSE {"registry", "registry_error"})]
    /\ call' = [call EXCEPT ![p].ret = "Ok", ![p].up = TRUE]
    /\ opc' = [opc EXCEPT ![p] = "idle"]
    /\ UNCHANGED <<regVars, concVars, kind, acctVars, fundVars, config, keep_data, process, child, leaked, disk>>

\* stop: process_guard.take()
StopBegin(p) ==
    /\ opc[p] = "idle"
    /\ call[p].n < MaxCalls
    /\ acts' = [acts EXCEPT ![p] = {}]
    /\ IF process[p]
       THEN /\ process' = take(process, p)
            /\ call' = [call EXCEPT ![p] = Enter(p, "stop", FALSE)]
            /\ opc' = [opc EXCEPT ![p] = "kill"]
            /\ UNCHANGED rpc_client
       ELSE /\ rpc_client' = [rpc_client EXCEPT ![p] = FALSE]
            /\ call' = [call EXCEPT ![p] = [Enter(p, "stop", FALSE) EXCEPT !.ret = "Ok"]]
            /\ UNCHANGED <<process, opc>>
    /\ UNCHANGED <<fs, regVars, concVars, kind, acctVars, fundVars, config, keep_data, child, leaked, disk>>

\* stop: child.kill(). Solana returns its error, the handle already taken;
\* Bitcoin ignores it.
StopKill(p) ==
    /\ opc[p] = "kill"
    /\ \E killed \in BOOLEAN :
          /\ acts' = [acts EXCEPT ![p] = @ \cup (IF killed THEN {"kill"} ELSE {"kill", "kill_error"})]
          /\ IF killed
             THEN /\ child' = [child EXCEPT ![p] = IF @ = "alive" THEN "killed" ELSE @]
                  /\ opc' = [opc EXCEPT ![p] = IF kind[p] = "solana" THEN "unregister" ELSE "wait_child"]
                  /\ UNCHANGED <<call, leaked>>
             ELSE IF kind[p] = "solana"
                  THEN /\ Return(p, "NodeManagement")
                       /\ child' = [child EXCEPT ![p] = "none"]
                       /\ leaked' = IF child[p] = "alive" THEN leaked \cup {Node(p)} ELSE leaked
                  ELSE /\ opc' = [opc EXCEPT ![p] = "wait_child"]
                       /\ UNCHANGED <<call, child, leaked>>
    /\ UNCHANGED <<fs, regVars, concVars, kind, acctVars, fundVars, config, keep_data, process, rpc_client, disk>>

\* a stop that puts the handle back when child.wait() fails
StopWait_restore(p) ==
    /\ opc[p] = "wait_child"
    /\ \E waited \in BOOLEAN :
          IF waited
          THEN /\ child[p] \in {"killed", "dead"}
               /\ child' = [child EXCEPT ![p] = "none"]
               /\ opc' = [opc EXCEPT ![p] = IF kind[p] = "solana" THEN "mark" ELSE "unregister"]
               /\ UNCHANGED <<call, leaked, acts, process>>
          ELSE /\ Return(p, "NodeManagement")
               /\ child' = [child EXCEPT ![p] = "none"]
               /\ leaked' = IF child[p] = "alive" THEN leaked \cup {Node(p)} ELSE leaked
               /\ Did(p, "wait_error")
               /\ process' = [process EXCEPT ![p] = TRUE]
    /\ UNCHANGED <<fs, regVars, concVars, kind, acctVars, fundVars, config, keep_data, rpc_client, disk>>

\* stop: child.wait() returns once the child has exited, or with an error
StopWait(p) ==
    /\ opc[p] = "wait_child"
    /\ \E waited \in BOOLEAN :
          IF waited
          THEN /\ child[p] \in {"killed", "dead"}
               /\ child' = [child EXCEPT ![p] = "none"]
               /\ opc' = [opc EXCEPT ![p] = IF kind[p] = "solana" THEN "mark" ELSE "unregister"]
               /\ UNCHANGED <<call, leaked, acts>>
          ELSE /\ Return(p, "NodeManagement")
               /\ child' = [child EXCEPT ![p] = "none"]
               /\ leaked' = IF child[p] = "alive" THEN leaked \cup {Node(p)} ELSE leaked
               /\ Did(p, "wait_error")
    /\ UNCHANGED <<fs, regVars, concVars, kind, acctVars, fundVars, config, keep_data, process, rpc_client, disk>>

\* a stop that removes the registry entry
StopUnregister_remove(p) ==
    /\ opc[p] = "unregister"
    /\ fs' = unregister(fs, Node(p)).fs
    /\ Did(p, "registry")
    /\ opc' = [opc EXCEPT ![p] = IF kind[p] = "solana" THEN "wait_child" ELSE "mark"]
    /\ UNCHANGED <<regVars, concVars, kind, acctVars, fundVars, config, keep_data, process, rpc_client, child,
                   leaked, disk, call>>

\* stop: unregister_from_registry (update_status to Stopped; an error is
\* logged). Solana calls it between kill and wait, Bitcoin after wait.
StopUnregister(p) ==
    /\ opc[p] = "unregister"
    /\ fs' = update_status(fs, Node(p), "stopped").fs
    /\ Did(p, "registry")
    /\ opc' = [opc EXCEPT ![p] = IF kind[p] = "solana" THEN "wait_child" ELSE "mark"]
    /\ UNCHANGED <<regVars, concVars, kind, acctVars, fundVars, config, keep_data, process, rpc_client, child,
                   leaked, disk, call>>

\* stop: InstanceInfo::load and mark_stopped, when instance.json is there
StopMark(p) ==
    /\ opc[p] = "mark"
    /\ IF disk[Node(p)].info # "none"
       THEN /\ disk' = [disk EXCEPT ![Node(p)].info = "stopped"]
            /\ Did(p, "snapshot")
       ELSE UNCHANGED <<disk, acts>>
    /\ opc' = [opc EXCEPT ![p] = "clean"]
    /\ UNCHANGED <<fs, regVars, concVars, kind, acctVars, fundVars, config, keep_data, process, rpc_client, child,
                   leaked, call>>

\* a stop that removes the instance directory whatever keep_data says
StopClean_delete(p) ==
    /\ opc[p] = "clean"
    /\ disk' = [disk EXCEPT ![Node(p)] = NoDir] /\ Did(p, "dir_delete")
    /\ rpc_client' = [rpc_client EXCEPT ![p] = FALSE]
    /\ Return(p, "Ok")
    /\ UNCHANGED <<fs, regVars, concVars, kind, acctVars, fundVars, config, keep_data, process, child, leaked>>

\* stop: clear_instance_data unless keep_data, self.rpc_client = None, Ok
StopClean(p) ==
    /\ opc[p] = "clean"
    /\ IF keep_data[p]
       THEN UNCHANGED <<disk, acts>>
       ELSE disk' = [disk EXCEPT ![Node(p)] = NoDir] /\ Did(p, "dir_delete")
    /\ rpc_client' = [rpc_client EXCEPT ![p] = FALSE]
    /\ Return(p, "Ok")
    /\ UNCHANGED <<fs, regVars, concVars, kind, acctVars, fundVars, config, keep_data, process, child, leaked>>

\* a daemon exits on its own
DaemonExit(p) ==
    /\ child[p] = "alive"
    /\ child' = [child EXCEPT ![p] = "dead"]
    /\ UNCHANGED <<fs, regVars, concVars, kind, acctVars, fundVars, config, keep_data, process, rpc_client, leaked,
                   disk, opc, call, acts>>

\* a daemon nobody holds a handle of exits
LeakedExit ==
    /\ \E n \in leaked : leaked' = leaked \ {n}
    /\ UNCHANGED <<fs, regVars, concVars, kind, acctVars, fundVars, config, keep_data, process, rpc_client, child,
                   disk, opc, call, acts>>

NextOrch ==
    \/ \E p \in Procs :
        \/ SetKeepData(p)
        \/ StartBegin(p)
        \/ StartClear(p)
        \/ StartSpawn(p)
        \/ StartEarlyExit(p)
        \/ StartSaveInfo(p)
        \/ StartWait(p)
        \/ StartFund(p)
        \/ StartRegister(p)
        \/ StopBegin(p)
        \/ StopKill(p)
        \/ StopWait(p)
        \/ StopUnregister(p)
        \/ StopMark(p)
        \/ StopClean(p)
        \/ DaemonExit(p)
    \/ LeakedExit

SpecOrch == InitOrch /\ [][NextOrch]_vars

\* ------------------------------------------------------------------ SpecStart
\* One process and its provider, against a backend that may fail.
Starter == 1

NextStart ==
    \/ \E p \in {Starter} :
        \/ SetKeepData(p)
        \/ StartBegin(p)
        \/ StartClear(p)
        \/ StartSpawn(p)
        \/ StartEarlyExit(p)
        \/ StartSaveInfo(p)
        \/ StartWait(p)
        \/ StartFund(p)
        \/ StartRegister(p)
        \/ StopBegin(p)
        \/ StopKill(p)
        \/ StopWait(p)
        \/ StopUnregister(p)
        \/ StopMark(p)
        \/ StopClean(p)
        \/ DaemonExit(p)
    \/ LeakedExit

SpecStart == InitStart /\ [][NextStart]_vars

\* ------------------------------------------------------------------ SpecPub
\* SpecStart with the registry files damaged from outside at any time: a
\* registry call of the provider may find a file it cannot read.
NextPub ==
    \/ NextStart
    \/ CorruptFile

SpecPub == InitStart /\ [][NextPub]_vars

\* ------------------------------------------------------------------ SpecCli
\* SpecStart next to the commands of the command line run in another
\* terminal for the same instances: accounts (load accounts.json, query the
\* balances, save accounts.json) and stop (mark instance.json stopped). The
\* command in flight is held in pass.

\* the balances the chain of node n holds for its accounts: nothing before
\* the funding block of the start that owns the daemon, its ledger after
ChainLedger(n, k) ==
    IF \E p \in Procs : Node(p) = n /\ child[p] = "alive" /\ fund[p].reached
    THEN fund[CHOOSE p \in Procs : Node(p) = n /\ child[p] = "alive" /\ fund[p].reached].ledger
    ELSE Zeros(k)

\* Commands::Accounts: storage.load, get_rpc_client_for_instance (reads
\* instance.json), update_balances against the daemon that answers
CliAccountsLoad(n) ==
    /\ pass = NoPass
    /\ disk[n].accounts.some /\ disk[n].accounts.v # <<>>
    /\ disk[n].info # "none"
    /\ \E p \in Procs : Node(p) = n /\ child[p] = "alive"
    /\ LET cached == disk[n].accounts.v
           r == IF n[1] = "solana"
                THEN solana_update_balances(cached, ChainLedger(n, Len(cached)), {})
                ELSE bitcoin_update_balances(cached, ChainLedger(n, Len(cached)), {})
       IN pass' = [stage |-> "cli_accounts", node |-> n, accounts |-> r.accounts]
    /\ UNCHANGED <<fs, regVars, concVars, kind, config, keep_data, process, rpc_client, child,
                   leaked, disk, opc, call, acts, acctVars, backend>>

\* Commands::Accounts: storage.save(&accounts)
CliAccountsSave ==
    /\ pass.stage = "cli_accounts"
    /\ disk' = [disk EXCEPT ![pass.node].dir = TRUE, ![pass.node].accounts = Some(pass.accounts)]
    /\ pass' = NoPass
    /\ UNCHANGED <<fs, regVars, concVars, kind, config, keep_data, process, rpc_client, child,
                   leaked, opc, call, acts, acctVars, backend>>

\* Commands::Stop: InstanceInfo::load, info.running = false, info.save()
CliStop(n) ==
    /\ disk[n].info # "none"
    /\ disk' = [disk EXCEPT ![n].info = "stopped"]
    /\ UNCHANGED <<fs, regVars, concVars, kind, config, keep_data, process, rpc_client, child,
                   leaked, opc, call, acts, acctVars, fundVars>>

NextCli ==
    \/ NextStart
    \/ \E n \in NodeIds : CliAccountsLoad(n)
    \/ CliAccountsSave
    \/ \E n \in NodeIds : CliStop(n)

SpecCli == InitStart /\ [][NextCli]_vars

\* ------------------------------------------------------------------ SpecApi
\* SpecStart next to the API server's handlers that write the registry:
\* health_check and stop_node. The handlers run when a client asks for them.

\* a daemon of node n is up
Alive(n) == n \in leaked \/ \E p \in Procs : Node(p) = n /\ child[p] = "alive"

\* health_check, the probe of one node: is_validator_running() at the rpc
\* url of a Solana node; for a Bitcoin node is_node_running() with the
\* credentials of instance.json, false when that cannot be loaded
probe(n, answers) == n \in answers /\ (n[1] = "bitcoin" => disk[n].info # "none")

\* health_check, the status it writes for a node
new_status(node, answered) ==
    IF answered THEN "running"
    ELSE IF node.status = "running" THEN "stopped" ELSE node.status

\* the orders in which a Vec holds the elements of S
Orders(S) == {s \in [1..Cardinality(S) -> S] : \A i, j \in DOMAIN s : i # j => s[i] # s[j]}

\* health_check, the for loop over the nodes listed: update_status of each
RECURSIVE health_updates(_, _, _)
health_updates(f, nodes, answers) ==
    IF nodes = <<>> THEN f
    ELSE LET node == Head(nodes)
         IN health_updates(update_status(f, node.node_id,
                                         new_status(node, probe(node.node_id, answers))).fs,
                           Tail(nodes), answers)

\* GET /health: registry.list(), then the loop; the daemons in answers are
\* those that answer the probe
HealthCheck ==
    /\ list(fs).ok
    /\ \E nodes \in Orders(list(fs).val), answers \in SUBSET {n \in NodeIds : Alive(n)} :
          fs' = health_updates(fs, nodes, answers)
    /\ UNCHANGED <<regVars, concVars, orchVars>>

\* POST /nodes/:id/stop: registry.get, update_status(Stopped); the daemon
\* is left alone
StopNode(n) ==
    /\ get(fs, n).ok /\ get(fs, n).val.some
    /\ fs' = update_status(fs, n, "stopped").fs
    /\ UNCHANGED <<regVars, concVars, orchVars>>

NextApi ==
    \/ NextStart
    \/ HealthCheck
    \/ \E n \in NodeIds : StopNode(n)

SpecApi == InitStart /\ [][NextApi]_vars

\* a call of the provider that has begun goes on, and the owner of the
\* provider goes on calling it; nobody has to ask the API server
SpecApiLive == SpecApi /\ WF_vars(NextStart)

\* ------------------------------------------------------------------ SpecFund
\* One funding pass of either RPC client over accounts preset to the target,
\* on a chain that holds nothing for them yet.
PassInputs ==
    UNION {{[stage |-> "input", chain |-> c, target |-> T, accounts |-> Targets(n, T),
             ledger |-> Zeros(n), fails |-> f, qfails |-> q] :
              c \in ChainType, T \in 1..MaxBalance, f \in [1..n -> 0..Retries],
              q \in SUBSET (1..n)} : n \in 1..MaxPass}

InitFund ==
    /\ InitRegistry
    /\ kind = [p \in Procs |-> "solana"]
    /\ InitProviders
    /\ backend = "faulty"
    /\ pass \in PassInputs

\* wallet_client.fund_accounts(&mut accounts_vec)
FundAccounts ==
    /\ pass.stage = "input"
    /\ pass.chain = "bitcoin"
    /\ pass' = [stage |-> "done", chain |-> pass.chain, target |-> pass.target,
                accounts |-> pass.accounts, ledger |-> pass.ledger, fails |-> pass.fails,
                qfails |-> pass.qfails,
                out |-> fund_accounts(pass.accounts, pass.ledger, pass.fails)]
    /\ UNCHANGED <<fs, regVars, concVars, kind, config, keep_data, process, rpc_client, child,
                   leaked, disk, opc, call, acts, acctVars, backend>>

\* rpc_client.set_balances(&mut accounts_vec)
SetBalances ==
    /\ pass.stage = "input"
    /\ pass.chain = "solana"
    /\ pass' = [stage |-> "done", chain |-> pass.chain, target |-> pass.target,
                accounts |-> pass.accounts, ledger |-> pass.ledger, fails |-> pass.fails,
                qfails |-> pass.qfails,
                out |-> set_balances(pass.accounts, pass.ledger, pass.fails, pass.qfails)]
    /\ UNCHANGED <<fs, regVars, concVars, kind, config, keep_data, process, rpc_client, child,
                   leaked, disk, opc, call, acts, acctVars, backend>>

NextFund == FundAccounts \/ SetBalances

SpecFund == InitFund /\ [][NextFund]_vars

\* ------------------------------------------------------------------ SpecUnit
\* One call of one function of the program, its input drawn from a bounded
\* set.

\* the start command of either chain given twice, with instance ids a and b
PathInputs ==
    {[stage |-> "ids", chain |-> c, a |-> a, b |-> b] :
        c \in ChainType, a \in InstanceIds, b \in InstanceIds}

\* the funding block of start on n accounts with target T, against a
\* backend that fails as short, fails, qfails and broken say
BlockInputs ==
    UNION {{[stage |-> "block", chain |-> c, n |-> n, T |-> T, short |-> sh, fails |-> f,
             qfails |-> q, broken |-> b] :
              c \in ChainType, T \in {0, 1, 50, 3750}, sh \in BOOLEAN,
              f \in [1..n -> {0, Retries}], q \in SUBSET (1..n),
              b \in {"none", "confirm", "import"}} : n \in 0..MaxPass}

\* set_balance(address, target) of a started provider with MaxPass accounts,
\* on any balances; src is where the Bitcoin wallet takes the coins from
BalanceInputs ==
    {[stage |-> "balance", chain |-> c, ledger |-> l, address |-> a, target |-> t, src |-> x] :
        c \in ChainType, l \in [0..MaxPass -> 0..(MaxBalance + 1)], a \in 1..MaxPass,
        t \in 0..(MaxBalance + 1), x \in 0..MaxPass}

UnitInputs ==
    PathInputs
    \cup {i \in BalanceInputs : i.chain = "solana" => i.src = 0}
    \cup {i \in BlockInputs : /\ i.chain = "solana" => ~i.short
                              /\ (i.chain = "solana" \/ i.short) => i.broken = "none"}

InitUnit ==
    /\ InitRegistry
    /\ kind = [p \in Procs |-> "solana"]
    /\ InitProviders
    /\ backend = "healthy"
    /\ pass \in UnitInputs

\* Commands::Start, twice: validate_name(&instance), exit(1) on an error,
\* else with_instance(&instance) and the paths of the config
start_paths(chain, id) ==
    IF validate_name(id)
    THEN Some([dir |-> instance_dir(chain, id), accounts |-> accounts_file(chain, id),
               info |-> instance_info_file(chain, id)])
    ELSE None

CliStartConfig ==
    /\ pass.stage = "ids"
    /\ pass' = [stage |-> "paths", chain |-> pass.chain, a |-> pass.a, b |-> pass.b,
                pa |-> start_paths(pass.chain, pass.a),
                pb |-> start_paths(pass.chain, pass.b)]
    /\ UNCHANGED <<fs, regVars, concVars, kind, config, keep_data, process, rpc_client, child,
                   leaked, disk, opc, call, acts, acctVars, backend>>

\* the funding block of start, from the first request to storage.save
FundingBlock ==
    /\ pass.stage = "block"
    /\ pass' = [stage |-> "funded", chain |-> pass.chain, n |-> pass.n, T |-> pass.T,
                short |-> pass.short, fails |-> pass.fails, qfails |-> pass.qfails,
                broken |-> pass.broken,
                out |-> IF pass.chain = "solana"
                        THEN solana_funding(pass.n, pass.T, pass.fails, pass.qfails)
                        ELSE bitcoin_funding(pass.n, pass.T, pass.short, pass.fails,
                                             pass.qfails, pass.broken)]
    /\ UNCHANGED <<fs, regVars, concVars, kind, config, keep_data, process, rpc_client, child,
                   leaked, disk, opc, call, acts, acctVars, backend>>

\* ChainProvider::set_balance: rpc_client()?.set_balance(address, amount)
SetBalance ==
    /\ pass.stage = "balance"
    /\ pass' = [stage |-> "balanced", chain |-> pass.chain, ledger |-> pass.ledger,
                address |-> pass.address, target |-> pass.target, src |-> pass.src,
                out |-> IF pass.chain = "bitcoin"
                        THEN bitcoin_set_balance(pass.ledger, pass.address, pass.target, pass.src)
                        ELSE [ret |-> "Ok",
                              request |-> set_balance(pass.ledger[pass.address], pass.target)
                                          - pass.ledger[pass.address],
                              ledger |-> [pass.ledger EXCEPT ![pass.address] =
                                             set_balance(@, pass.target)]]]
    /\ UNCHANGED <<fs, regVars, concVars, kind, config, keep_data, process, rpc_client, child,
                   leaked, disk, opc, call, acts, acctVars, backend>>

NextUnit ==
    \/ CliStartConfig
    \/ FundingBlock
    \/ SetBalance

SpecUnit == InitUnit /\ [][NextUnit]_vars

\* ------------------------------------------------------------------ SpecLoop
\* The two polling loops, one iteration at a time: set_balances of the
\* Solana client on n accounts (the backend fails the first fails[a]
\* set_balance calls for account a) and wait_for_validator / wait_for_node
\* with max_attempts (the backend answers each check as it likes).

\* what a loop did: a set_balance call for an account and its outcome, a
\* readiness check and its answer, a sleep
Ev(ev, acct, ok) == [ev |-> ev, acct |-> acct, ok |-> ok]

LoopInputs ==
    UNION {{[stage |-> "set_balances", n |-> n, fails |-> f, i |-> 1, retries |-> Retries,
             success |-> FALSE, log |-> <<>>] : f \in [1..n -> 0..Retries]} : n \in 0..MaxPass}
    \cup {[stage |-> "wait", max_attempts |-> m, attempt |-> 1, log |-> <<>>] :
             m \in 0..MaxAttempts}

InitLoop ==
    /\ InitRegistry
    /\ kind = [p \in Procs |-> "solana"]
    /\ InitProviders
    /\ backend = "faulty"
    /\ pass \in LoopInputs

\* a loop that goes on while attempts are left
loop_continues_all(retries, success) == retries > 0

\* while retries > 0 && !success
loop_continues(retries, success) == retries > 0 /\ ~success

\* set_balances: one turn of the while loop, a set_balance call; after a
\* failure that leaves attempts, the sleep of 2 s
LoopAttempt ==
    /\ pass.stage = "set_balances"
    /\ pass.i <= pass.n
    /\ loop_continues(pass.retries, pass.success)
    /\ LET ok == Retries - pass.retries >= pass.fails[pass.i]
       IN pass' = [pass EXCEPT
                     !.success = ok,
                     !.retries = IF ok THEN @ ELSE @ - 1,
                     !.log = @ \o <<Ev("set_balance", pass.i, ok)>>
                               \o (IF ~ok /\ pass.retries > 1
                                   THEN <<Ev("backoff", pass.i, TRUE)>> ELSE <<>>)]
    /\ UNCHANGED <<fs, regVars, concVars, kind, config, keep_data, process, rpc_client, child,
                   leaked, disk, opc, call, acts, acctVars, backend>>

\* set_balances: the while loop is left, the sleep of 500 ms, the next
\* account (let mut retries = 3; let mut success = false)
LoopNextAccount ==
    /\ pass.stage = "set_balances"
    /\ pass.i <= pass.n
    /\ ~loop_continues(pass.retries, pass.success)
    /\ pass' = [pass EXCEPT !.i = @ + 1, !.retries = Retries, !.success = FALSE,
                            !.log = @ \o <<Ev("delay", pass.i, TRUE)>>]
    /\ UNCHANGED <<fs, regVars, concVars, kind, config, keep_data, process, rpc_client, child,
                   leaked, disk, opc, call, acts, acctVars, backend>>

\* set_balances: the for loop is over, update_balances, Ok
LoopRefresh ==
    /\ pass.stage = "set_balances"
    /\ pass.i > pass.n
    /\ pass' = [stage |-> "returned", of |-> "set_balances", n |-> pass.n,
                fails |-> pass.fails, log |-> pass.log, ret |-> "Ok"]
    /\ UNCHANGED <<fs, regVars, concVars, kind, config, keep_data, process, rpc_client, child,
                   leaked, disk, opc, call, acts, acctVars, backend>>

\* wait_for_validator / wait_for_node: one turn of the for loop, the check,
\* Ok when it says ready, else the sleep of 500 ms and the error after the
\* last turn
WaitCheck ==
    /\ pass.stage = "wait"
    /\ pass.attempt <= pass.max_attempts
    /\ \E ready \in BOOLEAN :
          LET checked == pass.log \o <<Ev("check", pass.attempt, ready)>>
              slept == checked \o <<Ev("sleep", pass.attempt, TRUE)>>
          IN pass' = IF ready
                     THEN [stage |-> "returned", of |-> "wait",
                           max_attempts |-> pass.max_attempts, log |-> checked, ret |-> "Ok"]
                     ELSE IF pass.attempt = pass.max_attempts
                     THEN [stage |-> "returned", of |-> "wait",
                           max_attempts |-> pass.max_attempts, log |-> slept,
                           ret |-> "NodeManagement"]
                     ELSE [pass EXCEPT !.attempt = @ + 1, !.log = slept]
    /\ UNCHANGED <<fs, regVars, concVars, kind, config, keep_data, process, rpc_client, child,
                   leaked, disk, opc, call, acts, acctVars, backend>>

\* wait_for_validator / wait_for_node: the for loop is over, Ok(())
WaitFallthrough ==
    /\ pass.stage = "wait"
    /\ pass.attempt > pass.max_attempts
    /\ pass' = [stage |-> "returned", of |-> "wait", max_attempts |-> pass.max_attempts,
                log |-> pass.log, ret |-> "Ok"]
    /\ UNCHANGED <<fs, regVars, concVars, kind, config, keep_data, process, rpc_client, child,
                   leaked, disk, opc, call, acts, acctVars, backend>>

NextLoop ==
    \/ LoopAttempt
    \/ LoopNextAccount
    \/ LoopRefresh
    \/ WaitCheck
    \/ WaitFallthrough

SpecLoop == InitLoop /\ [][NextLoop]_vars

\* the loops run on a thread of their own and are not held up
SpecLoopLive == SpecLoop /\ WF_vars(NextLoop)

\* ------------------------------------------------------------------ claims
\* what get would have returned for id from the store loaded before the call
GetBefore(id) ==
    Ok(IF id \in DOMAIN last.before.val THEN Some(last.before.val[id]) ELSE None)

Parses(c) == c.kind = "json"

\* C6: load never fails on unparseable content: it gives the primary's store
\* when the primary parses, else the backup's store when the backup parses,
\* else the empty store; and no public operation built on it returns an error.
C6_LoadRecovers ==
    /\ last.op \notin {"none", "corrupt"} => last.before.ok /\ last.ret.ok
    /\ load(fs).ok =>
         load(fs).val =
             IF Parses(FileAt(fs, "primary")) THEN FileAt(fs, "primary").nodes
             ELSE IF Parses(FileAt(fs, "backup")) THEN FileAt(fs, "backup").nodes
             ELSE EmptyStore

\* C7: register(e) then get(e.node_id) returns e, unregister(id) then get(id)
\* returns none, and both leave what is stored under every other id unchanged.
C7_RegisterGetUnregister ==
    /\ last.op = "register" =>
         /\ last.ret.ok
         /\ get(fs, last.arg.node_id) = Ok(Some(last.arg))
         /\ \A k \in NodeIds \ {last.arg.node_id} : get(fs, k) = GetBefore(k)
    /\ last.op = "unregister" =>
         /\ last.ret.ok
         /\ get(fs, last.arg) = Ok(None)
         /\ \A k \in NodeIds \ {last.arg} : get(fs, k) = GetBefore(k)

\* register replaced an entry that differed, and unregister removed a stored
\* entry, each beside another stored entry
C7_Witness ==
    \/ /\ last.op = "register"
       /\ last.arg.node_id \in DOMAIN last.before.val
       /\ last.before.val[last.arg.node_id] # last.arg
       /\ Cardinality(DOMAIN last.before.val) > 1
    \/ /\ last.op = "unregister"
       /\ last.arg \in DOMAIN last.before.val
       /\ Cardinality(DOMAIN last.before.val) > 1

\* C8: after clear_stopped the registry holds every entry that was Running or
\* Unknown, unchanged, and nothing else: no entry with status Stopped.
C8_ClearStopped ==
    last.op = "clear_stopped" =>
        /\ last.ret.ok
        /\ load(fs).ok
        /\ \A k \in DOMAIN last.before.val :
              last.before.val[k].status \in {"running", "unknown"} =>
                  k \in DOMAIN load(fs).val /\ load(fs).val[k] = last.before.val[k]
        /\ \A k \in DOMAIN load(fs).val :
              /\ load(fs).val[k].status # "stopped"
              /\ k \in DOMAIN last.before.val

\* clear_stopped ran on a registry holding a Stopped and an Unknown entry
C8_Witness ==
    /\ last.op = "clear_stopped"
    /\ \E k \in DOMAIN last.before.val : last.before.val[k].status = "stopped"
    /\ \E k \in DOMAIN last.before.val : last.before.val[k].status = "unknown"

\* C9: update_status on an id that is not registered succeeds and leaves the
\* store as it was; on a registered id it changes the status of that entry
\* and nothing else.
C9_UpdateStatus ==
    last.op = "update_status" =>
        LET id == last.arg[1]
            s == last.arg[2]
            was == last.before.val
            now == load(fs).val
        IN /\ last.ret.ok
           /\ load(fs).ok
           /\ id \notin DOMAIN was => now = was
           /\ id \in DOMAIN was =>
                 /\ DOMAIN now = DOMAIN was
                 /\ now[id] = [was[id] EXCEPT !.status = s]
                 /\ \A k \in DOMAIN was \ {id} : now[k] = was[k]

\* update_status ran on an unknown id beside a stored entry, or changed the
\* status of one of two stored entries
C9_Witness ==
    /\ last.op = "update_status"
    /\ last.before.val # EmptyStore
    /\ \/ last.arg[1] \notin DOMAIN last.before.val
       \/ /\ last.arg[1] \in DOMAIN last.before.val
          /\ last.before.val[last.arg[1]].status # last.arg[2]
          /\ Cardinality(DOMAIN last.before.val) > 1

\* registry.json as a reader opening it now would find it
PrimaryDoc == FileAt(fs, "primary")

\* the processes have each made one call, a register, of pairwise distinct
\* node ids, and every call has returned success
AllRegistered ==
    /\ \A p \in Procs : nops[p] = 1 /\ pc[p] = "idle" /\ op[p].name = "register" /\ ret[p].ok
    /\ \A p, q \in Procs : p # q => op[p].id # op[q].id

\* C1: once N processes have each registered a distinct node id, list()
\* contains all N entries.
C1_NoLostRegister ==
    AllRegistered => list(fs).ok /\ \A p \in Procs : op[p].node \in list(fs).val

\* C4: a load of registry.json reads a complete saved document, never an
\* empty, torn or partly written one.
C4_LoadSeesComplete ==
    \A p \in Procs : obs[p].kind \in {"none", "json"}

\* the steps of save before its rename has succeeded
SavePcs == {"save_copy", "save_copy_end", "save_open", "save_lock", "save_write", "save_rename"}

\* C5: a step of save() before the final rename, a failing rename and a crash
\* inside save() leave the content of registry.json as it was.
C5_SaveKeepsPrimary ==
    [][\A p \in Procs :
          (/\ pc[p] \in SavePcs
           /\ pc'[p] # pc[p]
           /\ ~(pc[p] = "save_rename" /\ ret'[p].ok))
          => PrimaryDoc' = PrimaryDoc]_vars

\* the steps of start after the already-running check, and those after the
\* reset of the instance directory
PastCheck == {"clear", "spawn", "early", "info", "wait", "fund", "register"}
PastReset == PastCheck \ {"clear"}

\* C2: of two start calls for the same node running in different processes
\* at most one passes the already-running check and resets the directory.
C2_NoDoubleStart ==
    \A p, q \in Procs :
        (p # q /\ Node(p) = Node(q)) => ~(opc[p] \in PastReset /\ opc[q] \in PastReset)

\* C3: start on a node whose registry entry is Running returns
\* AlreadyRunning, spawns nothing and does not reset the instance directory.
C3_RejectsRunning ==
    \A p \in Procs :
        (call[p].cur = "start" /\ call[p].saw_running) =>
            /\ opc[p] = "idle"
            /\ call[p].ret = "AlreadyRunning"
            /\ acts[p] \cap {"reset", "spawn"} = {}

\* C10 as claimed: stop() twice in a row returns without error both times
\* (so every stop() does), and the second call does nothing.
C10_StopTwiceNoError ==
    \A p \in Procs :
        (opc[p] = "idle" /\ call[p].cur = "stop") =>
            /\ call[p].ret = "Ok"
            /\ call[p].prev = "stop" => acts[p] = {}

\* C10, amended: a stop() that follows a stop() returns without error and
\* makes no kill attempt, registry write, snapshot write or directory
\* deletion; a stop() returns an error only when kill (Solana) or wait
\* reported one.
C10_StopTwice ==
    \A p \in Procs :
        (opc[p] = "idle" /\ call[p].cur = "stop") =>
            /\ call[p].prev = "stop" => call[p].ret = "Ok" /\ acts[p] = {}
            /\ call[p].ret # "Ok" =>
                  \/ "wait_error" \in acts[p]
                  \/ "kill_error" \in acts[p] /\ kind[p] = "solana"

\* a provider was started, stopped (its registry entry is Stopped) and
\* stopped again, the other providers untouched
C10_Witness ==
    \E p \in Procs :
        /\ opc[p] = "idle" /\ call[p].cur = "stop" /\ call[p].prev = "stop" /\ call[p].n = 3
        /\ \A q \in Procs \ {p} : call[q].n = 0
        /\ load(fs).ok /\ Node(p) \in DOMAIN load(fs).val
        /\ load(fs).val[Node(p)].status = "stopped"

\* the accounts the backend of a pass makes fail: Bitcoin sends once, Solana
\* gives up after Retries failed attempts
FailedAccounts(ps) ==
    {i \in DOMAIN ps.accounts :
        IF ps.chain = "bitcoin" THEN ps.fails[i] > 0 ELSE ps.fails[i] >= Retries}

\* C14: a funding pass attempts every account; with no failure it returns Ok
\* and every cached balance is the target; with the accounts F failing it
\* returns one error naming exactly F, the balances of F are 0 and the others
\* are at the target.
C14_FundingPass ==
    pass.stage = "done" =>
        LET F == FailedAccounts(pass)
            out == pass.out
        IN /\ out.attempted = DOMAIN pass.accounts
           /\ F = {} => out.ret = "Ok" /\ \A i \in DOMAIN pass.accounts : out.accounts[i] = pass.target
           /\ F # {} =>
                 /\ out.ret = "Rpc"
                 /\ out.named = F
                 /\ \A i \in F : out.accounts[i] = 0
                 /\ \A i \in DOMAIN pass.accounts \ F : out.accounts[i] = pass.target

\* C11: once stop() has been entered the process handle is gone, whatever
\* kill and wait report, so is_running() is false after it returns; a stop()
\* that follows a stop() never leaves the no-op path.
C11_StopClearsHandle ==
    \A p \in Procs :
        call[p].cur = "stop" =>
            /\ ~process[p]
            /\ call[p].prev = "stop" => opc[p] = "idle"

\* a stop() failed on a live daemon (which nobody holds now) and was
\* followed by another stop()
C11_Witness ==
    \E p \in Procs :
        /\ opc[p] = "idle" /\ call[p].cur = "stop" /\ call[p].prev = "stop"
        /\ Node(p) \in leaked
        /\ \A q \in Procs \ {p} : call[q].n = 0

\* no other provider has been used
Sole(p) == \A q \in Procs \ {p} : call[q].n = 0

RegistryStopped(f, id) ==
    /\ load(f).ok
    /\ id \in DOMAIN load(f).val
    /\ load(f).val[id].status = "stopped"

C15_FundingErrorReturned ==
    \A p \in Procs :
        (/\ opc[p] = "idle" /\ call[p].cur = "start"
         /\ fund[p].reached /\ fund[p].failed # {}) => call[p].ret = "Rpc"

\* C16: after a start that reached the funding block, accounts.json holds
\* for every account the balance the chain holds for it.
C16_RefreshedPersisted ==
    \A p \in Procs :
        (/\ Sole(p) /\ opc[p] = "idle" /\ call[p].cur = "start" /\ fund[p].reached) =>
            disk[Node(p)].accounts = Some(fund[p].ledger)

\* C17: when start returns the error of the funding block that says the
\* accounts cannot be funded, the instance directory and instance.json
\* exist, the handle is held and the registry entry of the node is Running.
C17_StartedDespiteFundingError ==
    \A p \in Procs :
        (/\ Sole(p) /\ opc[p] = "idle" /\ call[p].cur = "start"
         /\ fund[p].reached /\ call[p].ret = "Other") =>
            /\ disk[Node(p)].dir
            /\ disk[Node(p)].info # "none"
            /\ process[p]
            /\ RegistryRunning(fs, Node(p))

\* C18: a start that returned a NodeManagement error (registry check, port
\* conflict, early exit or readiness timeout) has not written the registry.
C18_NoPartialPublication ==
    \A p \in Procs :
        (opc[p] = "idle" /\ call[p].cur = "start" /\ call[p].ret = "NodeManagement") =>
            "registry" \notin acts[p]

\* a start was aborted after its daemon was spawned (early exit or
\* readiness timeout), the registry holding the entry of another start
C18_Witness ==
    \E p \in Procs :
        /\ opc[p] = "idle" /\ call[p].cur = "start" /\ call[p].ret = "NodeManagement"
        /\ "spawn" \in acts[p]
        /\ load(fs).ok /\ load(fs).val # EmptyStore

\* C19: a provider in no call either holds no handle and no RPC client or
\* holds both, and holds none after a start aborted with a NodeManagement
\* error.
C19_TwoStates ==
    \A p \in Procs :
        opc[p] = "idle" =>
            /\ process[p] <=> rpc_client[p]
            /\ (call[p].cur = "start" /\ call[p].ret = "NodeManagement") => ~process[p]

\* C20: a start that finds a reserved port bound returns a NodeManagement
\* error, having spawned nothing and reset nothing.
C20_PortCheckFirst ==
    \A p \in Procs :
        "port_bound" \in acts[p] =>
            /\ call[p].ret = "NodeManagement"
            /\ acts[p] \cap {"reset", "spawn"} = {}

\* C21: after any sequence of registry calls every stored entry is keyed by
\* its own node_id, which is node_id(chain, instance_id), so no two entries
\* share a node_id; register of an id already stored replaces that entry and
\* adds none.
C21_UniqueNodeId ==
    /\ load(fs).ok
    /\ \A k \in DOMAIN load(fs).val :
          /\ load(fs).val[k].node_id = k
          /\ k = node_id(load(fs).val[k].chain, load(fs).val[k].instance_id)
    /\ \A a, b \in list(fs).val : a.node_id = b.node_id => a = b
    /\ (last.op = "register" /\ last.arg.node_id \in DOMAIN last.before.val) =>
          /\ DOMAIN load(fs).val = DOMAIN last.before.val
          /\ load(fs).val[last.arg.node_id] = last.arg

\* register has replaced a differing entry stored under its id, the registry
\* holding an entry of each chain
C21_Witness ==
    /\ last.op = "register"
    /\ last.arg.node_id \in DOMAIN last.before.val
    /\ last.before.val[last.arg.node_id] # last.arg
    /\ {load(fs).val[k].chain : k \in DOMAIN load(fs).val} = ChainType

\* p is q followed by at least one more component
Under(q, p) == Len(p) > Len(q) /\ SubSeq(p, 1, Len(q)) = q

At(calls, name) == {i \in 1..Len(calls) : calls[i].call = name}

RewardSum(k) ==
    LET Eras[e \in 0..(k \div HalvingInterval)] ==
            IF e = 0 THEN 0 ELSE Eras[e - 1] + HalvingInterval * reward(e - 1)
    IN Eras[k \div HalvingInterval] + (k % HalvingInterval) * reward(k \div HalvingInterval)

\* the least number of rewards whose sum is at least need
CoinbaseBlocksNeeded(need) ==
    CHOOSE k \in 0..(3 * HalvingInterval) :
        RewardSum(k) >= need /\ (k = 0 \/ RewardSum(k - 1) < need)

\* the blocks a Bitcoin funding block mined before it funded
MinedFirst == pass.out.calls[1].amount

\* a short wallet makes the funding block fail with the insufficient-balance
\* error before anything is sent
ShortFails ==
    pass.short => pass.out.ret = "Other" /\ At(pass.out.calls, "send_to_address") = {}

\* C24 as claimed: the blocks mined before funding are 100 plus the least
\* number of coinbase rewards covering accounts * target + fee buffer; with
\* the wallet short of that need start fails and sends nothing.
C24_BlocksMinimal ==
    (pass.stage = "funded" /\ pass.chain = "bitcoin") =>
        /\ pass.out.calls[1].call = "mine"
        /\ MinedFirst = MaturityDepth + CoinbaseBlocksNeeded(total_btc_needed(pass.n, pass.T))
        /\ ShortFails

\* C24, amended: the blocks mined before funding are 100 plus the least
\* number of coinbase rewards covering the need, and at least 100 + 1 (as
\* with no accounts, where the need is 0); with the wallet short of the need
\* start fails and sends nothing.
C24_BlocksToMine ==
    (pass.stage = "funded" /\ pass.chain = "bitcoin") =>
        /\ pass.out.calls[1].call = "mine"
        /\ MinedFirst = MaturityDepth
                        + (IF CoinbaseBlocksNeeded(total_btc_needed(pass.n, pass.T)) = 0 THEN 1
                           ELSE CoinbaseBlocksNeeded(total_btc_needed(pass.n, pass.T)))
        /\ ShortFails

\* a Bitcoin funding block mined past the first halving of the reward and
\* then found the wallet short
C24_Witness ==
    /\ pass.stage = "funded" /\ pass.chain = "bitcoin" /\ pass.n > 0
    /\ MinedFirst > MaturityDepth + HalvingInterval
    /\ pass.short

\* the positions in a loop's log of the events ev for account a
Evs(ev, a) == {k \in 1..Len(pass.log) : pass.log[k].ev = ev /\ pass.log[k].acct = a}

\* the log of a set_balances pass, running or returned
InSetBalances ==
    pass.stage = "set_balances" \/ (pass.stage = "returned" /\ pass.of = "set_balances")

\* the attempts of set_balances so far: at most Retries for an account, none
\* after a success of that account, a backoff between a failed attempt and
\* the next, nothing for an account once the pass has moved on from it, and
\* the accounts in their order
RetriesBounded ==
    InSetBalances =>
        \A a \in 1..pass.n :
            /\ Cardinality(Evs("set_balance", a)) <= Retries
            /\ \A k \in Evs("set_balance", a) :
                  /\ pass.log[k].ok => \A m \in Evs("set_balance", a) : m <= k
                  /\ (~pass.log[k].ok /\ \E m \in Evs("set_balance", a) : m > k) =>
                        pass.log[k + 1] = Ev("backoff", a, TRUE)
            /\ Cardinality(Evs("delay", a)) <= 1
            /\ \A d \in Evs("delay", a) :
                  /\ \A k \in 1..Len(pass.log) : pass.log[k].acct = a => k <= d
                  /\ \A k \in 1..Len(pass.log) : pass.log[k].acct < a => k < d
                  /\ Evs("set_balance", a) # {}
                  /\ (\E k \in Evs("set_balance", a) : pass.log[k].ok)
                     \/ Cardinality(Evs("set_balance", a)) = Retries

\* a returned set_balances pass has visited every account once
VisitedAll ==
    (pass.stage = "returned" /\ pass.of = "set_balances") =>
        \A a \in 1..pass.n : Cardinality(Evs("delay", a)) = 1

\* C25: set_balances makes at most 3 attempts for an account, stops them at
\* the first success, waits the backoff between failed attempts, moves on
\* to the next account after the last attempt, and returns after it has
\* visited every account once.
C25_RetriesTerminate ==
    /\ [](RetriesBounded /\ VisitedAll)
    /\ (pass.stage = "set_balances") ~> (pass.stage = "returned")

\* a set_balances pass returned after an account had used all its attempts
\* and the next had succeeded at its second
C25_Witness ==
    /\ pass.stage = "returned" /\ pass.of = "set_balances" /\ pass.n = 2
    /\ Cardinality(Evs("set_balance", 1)) = Retries
    /\ \A k \in Evs("set_balance", 1) : ~pass.log[k].ok
    /\ Cardinality(Evs("set_balance", 2)) = 2

\* C26: set_balance requests nothing when the address holds the target,
\* else exactly target - current, and leaves no address with less than it
\* held before.
C26_OnlyAdds ==
    pass.stage = "balanced" =>
        LET current == pass.ledger[pass.address]
        IN /\ current >= pass.target => pass.out.request = 0 /\ pass.out.ledger = pass.ledger
           /\ current < pass.target => pass.out.request = pass.target - current
           /\ \A x \in DOMAIN pass.ledger : pass.out.ledger[x] >= pass.ledger[x]

\* C27: in every funding block that reached the funding pass, after the
\* pass the balance of every account is queried, and the cached balance of
\* every account whose query returned is the balance returned, whatever the
\* funding of that or another account did.
C27_RefreshAlways ==
    (pass.stage = "funded" /\ ~pass.short) =>
        LET calls == pass.out.calls
            funding == At(calls, "send_to_address") \cup At(calls, "set_balance")
        IN \A a \in 1..pass.n :
              /\ \E q \in At(calls, "get_balance") :
                    calls[q].to = a /\ \A j \in funding : j < q
              /\ a \notin pass.qfails => pass.out.cached[a] = pass.out.ledger[a]

\* the readiness checks a wait made, by their place in its log
Checks == {k \in 1..Len(pass.log) : pass.log[k].ev = "check"}

\* a returned wait: at most max_attempts checks, a sleep after every check
\* that said not ready, Ok exactly when the last thing it did was a check that
\* said ready, the error exactly when max_attempts checks all said not ready
WaitOutcome ==
    (pass.stage = "returned" /\ pass.of = "wait") =>
        /\ Cardinality(Checks) <= pass.max_attempts
        /\ \A k \in Checks :
              ~pass.log[k].ok => k < Len(pass.log) /\ pass.log[k + 1].ev = "sleep"
        /\ \A k \in Checks : pass.log[k].ok => k = Len(pass.log)
        /\ pass.ret = "Ok" <=>
              (pass.log # <<>> /\ Len(pass.log) \in Checks /\ pass.log[Len(pass.log)].ok)
        /\ pass.ret = "NodeManagement" <=>
              (Cardinality(Checks) = pass.max_attempts /\ \A k \in Checks : ~pass.log[k].ok)

\* C28: wait_for_node / wait_for_validator with max_attempts makes at most
\* max_attempts readiness checks with a sleep between them, returns Ok as soon
\* as and only if a check says ready, returns the startup error when all
\* max_attempts checks said not ready, and every wait returns.
C28_ReadinessWait ==
    /\ []WaitOutcome
    /\ (pass.stage = "wait") ~> (pass.stage = "returned")

\* p is at the step of start that follows the spawn: the poll of the child
\* in SolanaProvider::start, save_instance_info in BitcoinProvider::start
AfterSpawn(p) == opc[p] = (IF kind[p] = "solana" THEN "early" ELSE "info")

\* C29: in both backends, when the daemon has exited by the time start goes
\* on after the spawn, start's next step returns NodeManagement with the
\* handle released, and the call has written neither instance.json nor the
\* registry.
C29_EarlyExitAborts ==
    [][\A p \in Procs :
          (AfterSpawn(p) /\ child[p] = "dead" /\ opc'[p] # opc[p]) =>
              /\ opc'[p] = "idle" /\ call'[p].ret = "NodeManagement"
              /\ ~process'[p]
              /\ disk'[Node(p)].info = "none"
              /\ acts'[p] \cap {"snapshot", "registry"} = {}]_vars

\* the call of p named name has returned
Returned(p, name) == opc[p] = "idle" /\ call[p].cur = name /\ call[p].ret # "Pending"

\* C30: a start that returned an error has not written instance.json and
\* leaves none with running = true, and after a stop has returned
\* instance.json, when it is there, has running = false.
C30_InfoOnlyOnSuccess ==
    \A p \in {Starter} :
        /\ (Returned(p, "start") /\ call[p].ret \notin {"Ok", "AlreadyRunning"}) =>
              "snapshot" \notin acts[p] /\ disk[Node(p)].info # "running"
        /\ Returned(p, "stop") => disk[Node(p)].info # "running"

\* the entry start publishes for the provider of p
Entry(p) == NodeInfoNew(kind[p], config[p].instance_id, PortOf(kind[p], config[p].instance_id))

\* C31: when register fails at the end of start, start still returns Ok
\* with the handle held, the RPC client set and instance.json saying running;
\* the registry files are left as they were.
C31_PublishFailureNotFatal ==
    [][\A p \in {Starter} :
          (opc[p] = "register" /\ ~register(fs, Entry(p)).ret.ok /\ opc'[p] # opc[p]) =>
              /\ opc'[p] = "idle" /\ call'[p].cur = "start" /\ call'[p].ret = "Ok"
              /\ process'[p] /\ rpc_client'[p]
              /\ disk'[Node(p)].info = "running"
              /\ "registry_error" \in acts'[p]
              /\ fs' = fs]_vars

\* a start returned Ok although its register call failed
C31_Witness ==
    \E p \in {Starter} :
        /\ Returned(p, "start") /\ call[p].ret = "Ok"
        /\ "registry_error" \in acts[p]
        /\ process[p] /\ rpc_client[p]
        /\ ~RegistryRunning(fs, Node(p))

\* the step is the head of a start call of p
StartCalled(p) == call'[p].n = call[p].n + 1 /\ call'[p].cur = "start"

\* C32: whether start accepts or rejects is decided by the process handle
\* and the registry entry alone: it rejects with AlreadyRunning exactly when
\* the handle is held, with the registry error exactly when it is not and the
\* check of the backend finds a Running entry, and accepts otherwise, whatever
\* instance.json holds.
C32_DecisionIgnoresSnapshot ==
    [][\A p \in Procs : StartCalled(p) =>
          LET id == node_id(kind[p], config'[p].instance_id)
          IN /\ call'[p].ret = "AlreadyRunning" <=> process[p]
             /\ call'[p].ret = "NodeManagement" <=> (~process[p] /\ start_check(kind[p], fs, id))
             /\ (call'[p].ret = "Pending" /\ opc'[p] = "clear")
                   <=> (~process[p] /\ ~start_check(kind[p], fs, id))]_vars

\* a start that has just been accepted over an instance.json that says
\* running
C32_Witness ==
    \E p \in {Starter} :
        /\ opc[p] = "clear" /\ call[p].cur = "start"
        /\ disk[Node(p)].info = "running"

OneParses(f) == Parses(FileAt(f, "primary")) \/ Parses(FileAt(f, "backup"))

\* C34: the rename that ends a save() over a registry.json that parses
\* leaves in registry.json.bak what registry.json held before; and no step
\* of a save(), nor its interruption, takes the two files from a state where
\* one of them parses to a state where neither does.
C34_LastKnownGood ==
    [][\A p \in {Writer} :
          /\ (pc[p] = "save_rename" /\ pc'[p] = "idle" /\ ret'[p].ok /\ Parses(PrimaryDoc)) =>
                FileAt(fs', "backup") = PrimaryDoc
          /\ (pc[p] \in SavePcs /\ pc'[p] # pc[p] /\ OneParses(fs)) => OneParses(fs')]_vars

\* C35: in both backends the step of stop() that sets the registry entry of
\* the node to Stopped is taken when the daemon stop() is terminating has
\* exited (killed and waited on), not while it is alive or killed and not yet
\* reaped.
C35_StoppedAfterExit ==
    [][\A p \in {Starter} :
          (/\ call[p].cur = "stop" /\ opc[p] # "idle"
           /\ ~RegistryStopped(fs, Node(p)) /\ RegistryStopped(fs', Node(p))) =>
              child[p] \notin {"alive", "killed"}]_vars

\* C36: while the funding block of a start is in progress, accounts.json
\* and instance.json of its instance are changed by no step other than a
\* step of that start; and once the block has saved accounts.json, the file
\* holds the accounts of the start until the provider is called again.
C36_SingleWriter ==
    [][\A p \in {Starter} :
          /\ (opc[p] = "fund" /\ disk'[Node(p)] # disk[Node(p)]) => opc'[p] # opc[p]
          /\ (opc[p] \in {"register", "idle"} /\ call[p].cur = "start" /\ fund[p].reached
              /\ opc'[p] = opc[p] /\ call'[p] = call[p]
              /\ disk[Node(p)].accounts = Some(accounts[p])) =>
                disk'[Node(p)].accounts = Some(accounts[p])]_vars

\* no daemon of node n is up or about to exit
Dead(n) == n \notin leaked /\ \A p \in Procs : Node(p) = n => child[p] \notin {"alive", "killed"}

\* node n is registered as Running, its daemon is gone and no provider holds
\* a handle of it or is in a call for it
Leak(n) ==
    /\ RegistryRunning(fs, n) /\ Dead(n)
    /\ \A p \in Procs : Node(p) = n => ~process[p] /\ opc[p] = "idle"

\* C37: a node registered as Running whose daemon is gone and whose handle
\* nobody holds does not stay so: its entry becomes Stopped or is removed, or
\* a start of the instance is accepted.
C37_NoLeak == \A n \in NodeIds : Leak(n) ~> ~Leak(n)

\* C38: between the calls of a provider its RPC client is set only while
\* the process handle is held, so that rpc_client(), get_balance and
\* set_balance return NotRunning whenever is_running() is false.
C38_ClientOnlyWhileRunning ==
    \A p \in Procs : (opc[p] = "idle" /\ rpc_client[p]) => is_running(p)

\* C39: while a start of process b has reset and re-created the directory of
\* a node, no step of a stop() that another process a runs for the same node
\* changes the directory or a file in it.
C39_StopSparesNewInstance ==
    [][\A a, b \in Procs :
          (/\ a # b /\ Node(a) = Node(b)
           /\ call[a].cur = "stop" /\ opc[a] # "idle" /\ opc'[a] # opc[a]
           /\ call[b].cur = "start" /\ opc[b] \in PastReset) =>
              disk'[Node(b)] = disk[Node(b)]]_vars

\* C40: the step of start that resets the instance directory is not taken
\* while a daemon of that instance spawned by another provider is alive.
C40_NoResetUnderLiveDaemon ==
    [][\A p \in Procs :
          (opc[p] = "clear" /\ opc'[p] # opc[p]) =>
              /\ Node(p) \notin leaked
              /\ \A q \in Procs \ {p} : Node(q) = Node(p) => child[q] # "alive"]_vars

====
